---- MODULE Spec2Model ----
(***************************************************************************)
(* Model of the RateLimiter of VideoDanmakuServer (src/src/rateLimit.ts)   *)
(* and of the request handlers that drive it (src/src/index.ts).           *)
(*                                                                         *)
(* Time is the value Date.now() returns.  The model counts it in coarse    *)
(* units: the intervals of the source keep their order                     *)
(* (RETRIEVAL_INTERVAL < COMMENT_INTERVAL < DAY_IN_MS and                  *)
(* LOCKOUT_PERIOD < DAY_IN_MS) but not their ratios.  Each call of the     *)
(* RateLimiter runs to completion (no await inside), so each is one step;  *)
(* a handler of index.ts is one step up to its await of the underlying     *)
(* action and one step after it.                                           *)
(***************************************************************************)
EXTENDS Integers, Sequences, FiniteSets, TLC

VARIABLES
    env,             \* process.env as the constructor reads it
    now,             \* the clock, Date.now()
    DAILY_LIMIT,     \* the readonly field the constructor sets from the environment
    ipLimits,        \* Map<string, RateLimitEntry>, keyed by address
    userLimits,      \* Map<string, RateLimitEntry>, keyed by username
    userIPMappings,  \* Map<string, UserIPMapping>
    authLimits,      \* Map<string, AuthAttemptEntry>
    pending,         \* requests whose check allowed them and whose handler awaits the underlying action
    last,            \* what the last call did and returned
    hist             \* history: when each key last had a post or a retrieval recorded, failure streaks

vars == <<env, now, DAILY_LIMIT, ipLimits, userLimits, userIPMappings, authLimits, pending, last, hist>>

----------------------------------------------------------------------------
(* Configuration and constants of the RateLimiter *)

RETRIEVAL_INTERVAL == 1
COMMENT_INTERVAL == 2
LOCKOUT_PERIOD == 2
DAY_IN_MS == 3
MAX_LOGIN_ATTEMPTS == 5

\* the daily limits the server is configured with
DailyLimits == {1, 2}

(* Bounds of the model *)
MaxTime == 4        \* the clock runs from StartTime to StartTime + MaxTime
MaxPending == 2     \* requests in flight between their check and their record

IPs == {"A", "B"}
Users == {"alice"}
NoUser == "none"    \* getComments without a username
NoIP == "none"      \* getStatus without an ip
LoginIPs == {"A"}
\* body.emailOrUsername as the client sends it
LoginInputs == {"alice", "Alice", "bob"}
\* String.prototype.toLowerCase over LoginInputs
toLowerCase(str) == IF str = "Alice" THEN "alice" ELSE str
LoginNames == {toLowerCase(str) : str \in LoginInputs}
AuthIds == LoginIPs \cup LoginNames

\* process.env.DAILY_LIMIT, COMMENT_INTERVAL and RETRIEVAL_INTERVAL are strings,
\* or undefined when the variable is not set (NODE_ENV is not "test")
Unset == "undefined"
EnvValues == {Unset, "0", "1", "2", "-1", "abc"}
Environments ==
    [DAILY_LIMIT : EnvValues, COMMENT_INTERVAL : EnvValues, RETRIEVAL_INTERVAL : EnvValues]

\* Number(value) over EnvValues: NaN for undefined and for text that is not a number
Number(value) ==
    IF value \in {Unset, "abc"} THEN [nan |-> TRUE, n |-> 0]
    ELSE [nan |-> FALSE,
          n |-> IF value = "0" THEN 0 ELSE IF value = "1" THEN 1
                ELSE IF value = "2" THEN 2 ELSE -1]

\* x || d: d when x is NaN or 0, which are falsy
OrDefault(x, d) == IF x.nan \/ x.n = 0 THEN d ELSE x.n

\* the default daily limit (100 in the source, on the scale of DailyLimits)
DEFAULT_DAILY_LIMIT == 2

\* the three readonly fields the constructor computes; the defaults of the two
\* intervals are the values the model's checks use
constructor(e) ==
    [DAILY_LIMIT |-> OrDefault(Number(e.DAILY_LIMIT), DEFAULT_DAILY_LIMIT),
     COMMENT_INTERVAL |-> OrDefault(Number(e.COMMENT_INTERVAL), COMMENT_INTERVAL),
     RETRIEVAL_INTERVAL |-> OrDefault(Number(e.RETRIEVAL_INTERVAL), RETRIEVAL_INTERVAL)]

\* Date.now() is far larger than one day: an entry's initial lastComment of 0
\* is always older than any interval, and older than one day
StartTime == DAY_IN_MS + 1

----------------------------------------------------------------------------
(* Maps *)

Has(m, k) == k \in DOMAIN m
Put(m, k, v) == [x \in (DOMAIN m) \cup {k} |-> IF x = k THEN v ELSE m[x]]
Remove(m, k) == [x \in (DOMAIN m) \ {k} |-> m[x]]
EmptyMap == [x \in {} |-> 0]

SeqHas(s, x) == \E i \in 1..Len(s) : s[i] = x
\* Set.add keeps insertion order and ignores an element already present
SetAdd(s, x) == IF SeqHas(s, x) THEN s ELSE Append(s, x)

(* Results of a check: {allowed: true} or {allowed: false, error} *)
Allow == [allowed |-> TRUE, reason |-> "none", remaining |-> 0]
Deny(reason, remaining) == [allowed |-> FALSE, reason |-> reason, remaining |-> remaining]

NewEntry(t) == [count |-> 0, lastReset |-> t, lastComment |-> 0, lastRetrieval |-> 0]

----------------------------------------------------------------------------
(* checkRateLimit and its helpers *)

\* (variant: the mapping keeps the last address only)
updateUserIPMapping_LastOnly(maps, username, ip, t) ==
    IF ~Has(maps, username)
    THEN Put(maps, username, [ips |-> <<ip>>, totalDailyComments |-> 0, lastReset |-> t])
    ELSE LET m == maps[username]
             m1 == IF t - m.lastReset >= DAY_IN_MS
                   THEN [m EXCEPT !.totalDailyComments = 0, !.lastReset = t]
                   ELSE m
         IN Put(maps, username, [m1 EXCEPT !.ips = <<ip>>])

\* (variant: the mapping's total is not reset when its day is over)
updateUserIPMapping_NoReset(maps, username, ip, t) ==
    IF ~Has(maps, username)
    THEN Put(maps, username, [ips |-> <<ip>>, totalDailyComments |-> 0, lastReset |-> t])
    ELSE Put(maps, username, [maps[username] EXCEPT !.ips = SetAdd(@, ip)])

updateUserIPMapping(maps, username, ip, t) ==
    IF ~Has(maps, username)
    THEN Put(maps, username, [ips |-> <<ip>>, totalDailyComments |-> 0, lastReset |-> t])
    ELSE LET m == maps[username]
             m1 == IF t - m.lastReset >= DAY_IN_MS
                   THEN [m EXCEPT !.totalDailyComments = 0, !.lastReset = t]
                   ELSE m
         IN Put(maps, username, [m1 EXCEPT !.ips = SetAdd(m1.ips, ip)])

\* (variant: the reset comes one unit late)
DailyReset_Late(e, t) ==
    IF t - e.lastReset > DAY_IN_MS THEN [e EXCEPT !.count = 0, !.lastReset = t] ELSE e

\* the daily reset both checkIPLimit and checkUserLimit (and the aggregation scan) apply
DailyReset(e, t) ==
    IF t - e.lastReset >= DAY_IN_MS THEN [e EXCEPT !.count = 0, !.lastReset = t] ELSE e

\* (variant: the spacing is one unit short)
TooSoon_Short(e, t) == t - e.lastComment < COMMENT_INTERVAL - 1

\* (variant: no spacing between posts)
TooSoon_Never(e, t) == FALSE

\* the spacing test of checkIPLimit and checkUserLimit
TooSoon(e, t) == t - e.lastComment < COMMENT_INTERVAL

\* (variant: the limit is compared with > instead of >=)
checkLimit_OffByOne(limits, key, t, dailyReason, waitReason) ==
    LET e0 == IF Has(limits, key) THEN limits[key] ELSE NewEntry(t)
        e == DailyReset(e0, t)
        res == IF e.count > DAILY_LIMIT
               THEN Deny(dailyReason, DAY_IN_MS - (t - e.lastReset))
               ELSE IF TooSoon(e, t)
               THEN Deny(waitReason, COMMENT_INTERVAL - (t - e.lastComment))
               ELSE Allow
    IN [limits |-> Put(limits, key, e), res |-> res]

\* (variant: an allowed check already counts the post)
checkLimit_Consume(limits, key, t, dailyReason, waitReason) ==
    LET e0 == IF Has(limits, key) THEN limits[key] ELSE NewEntry(t)
        e == DailyReset(e0, t)
        res == IF e.count >= DAILY_LIMIT
               THEN Deny(dailyReason, DAY_IN_MS - (t - e.lastReset))
               ELSE IF TooSoon(e, t)
               THEN Deny(waitReason, COMMENT_INTERVAL - (t - e.lastComment))
               ELSE Allow
    IN [limits |-> Put(limits, key, IF res.allowed THEN [e EXCEPT !.count = @ + 1] ELSE e),
        res |-> res]

\* (variant: no daily limit, the spacing only)
checkLimit_NoCap(limits, key, t, dailyReason, waitReason) ==
    LET e0 == IF Has(limits, key) THEN limits[key] ELSE NewEntry(t)
        e == DailyReset(e0, t)
        res == IF TooSoon(e, t)
               THEN Deny(waitReason, COMMENT_INTERVAL - (t - e.lastComment))
               ELSE Allow
    IN [limits |-> Put(limits, key, e), res |-> res]

checkLimit(limits, key, t, dailyReason, waitReason) ==
    LET e0 == IF Has(limits, key) THEN limits[key] ELSE NewEntry(t)
        e == DailyReset(e0, t)
        res == IF e.count >= DAILY_LIMIT
               THEN Deny(dailyReason, DAY_IN_MS - (t - e.lastReset))
               ELSE IF TooSoon(e, t)
               THEN Deny(waitReason, COMMENT_INTERVAL - (t - e.lastComment))
               ELSE Allow
    IN [limits |-> Put(limits, key, e), res |-> res]

checkIPLimit(limits, ip, t) == checkLimit(limits, ip, t, "ip_daily", "ip_wait")

checkUserLimit(limits, username, t) == checkLimit(limits, username, t, "user_daily", "user_wait")

\* (variant: the effective count is compared with > instead of >=)
RECURSIVE AggScan_OffByOne(_, _, _, _, _)
AggScan_OffByOne(limits, ips, i, total, t) ==
    IF i > Len(ips) THEN [limits |-> limits, res |-> Allow]
    ELSE IF ~Has(limits, ips[i]) THEN AggScan_OffByOne(limits, ips, i + 1, total, t)
    ELSE LET e == DailyReset(limits[ips[i]], t)
             l1 == Put(limits, ips[i], e)
         IN IF e.count + total > DAILY_LIMIT
            THEN [limits |-> l1, res |-> Deny("cross_ip", DAY_IN_MS - (t - e.lastReset))]
            ELSE AggScan_OffByOne(l1, ips, i + 1, total, t)

\* the loop of checkAggregationLimit over mapping.ips from position i on:
\* each visited address has its daily reset applied, the first one whose
\* effective count reaches the limit ends the loop
RECURSIVE AggScan(_, _, _, _, _)
AggScan(limits, ips, i, total, t) ==
    IF i > Len(ips) THEN [limits |-> limits, res |-> Allow]
    ELSE IF ~Has(limits, ips[i]) THEN AggScan(limits, ips, i + 1, total, t)
    ELSE LET e == DailyReset(limits[ips[i]], t)
             l1 == Put(limits, ips[i], e)
         IN IF e.count + total >= DAILY_LIMIT
            THEN [limits |-> l1, res |-> Deny("cross_ip", DAY_IN_MS - (t - e.lastReset))]
            ELSE AggScan(l1, ips, i + 1, total, t)

\* (variant: the loop also runs for a mapping of one address)
checkAggregationLimit_Always(limits, maps, username, t) ==
    IF ~Has(maps, username) \/ Len(maps[username].ips) < 1
    THEN [limits |-> limits, res |-> Allow]
    ELSE AggScan(limits, maps[username].ips, 1, maps[username].totalDailyComments, t)

checkAggregationLimit(limits, maps, username, t) ==
    IF ~Has(maps, username) \/ Len(maps[username].ips) <= 1
    THEN [limits |-> limits, res |-> Allow]
    ELSE AggScan(limits, maps[username].ips, 1, maps[username].totalDailyComments, t)

\* (variant: the aggregation check runs before the username's own check)
checkRateLimit_AggFirst(ipl, usl, maps, ip, username, t) ==
    LET maps1 == updateUserIPMapping(maps, username, ip, t)
        ipCheck == checkIPLimit(ipl, ip, t)
        aggCheck == checkAggregationLimit(ipCheck.limits, maps1, username, t)
        userCheck == checkUserLimit(usl, username, t)
    IN IF ~ipCheck.res.allowed
       THEN [ip |-> ipCheck.limits, user |-> usl, maps |-> maps1, res |-> ipCheck.res]
       ELSE IF ~aggCheck.res.allowed
       THEN [ip |-> aggCheck.limits, user |-> usl, maps |-> maps1, res |-> aggCheck.res]
       ELSE [ip |-> aggCheck.limits, user |-> userCheck.limits, maps |-> maps1,
             res |-> userCheck.res]

\* (variant: the mapping is updated only when the check allows the post)
checkRateLimit_MapWhenAllowed(ipl, usl, maps, ip, username, t) ==
    LET maps1 == updateUserIPMapping(maps, username, ip, t)
        ipCheck == checkIPLimit(ipl, ip, t)
        userCheck == checkUserLimit(usl, username, t)
        aggCheck == checkAggregationLimit(ipCheck.limits, maps1, username, t)
    IN IF ~ipCheck.res.allowed
       THEN [ip |-> ipCheck.limits, user |-> usl, maps |-> maps, res |-> ipCheck.res]
       ELSE IF ~userCheck.res.allowed
       THEN [ip |-> ipCheck.limits, user |-> userCheck.limits, maps |-> maps, res |-> userCheck.res]
       ELSE [ip |-> aggCheck.limits, user |-> userCheck.limits,
             maps |-> IF aggCheck.res.allowed THEN maps1 ELSE maps, res |-> aggCheck.res]

\* the whole of checkRateLimit: the three stores after the call, and the result
checkRateLimit(ipl, usl, maps, ip, username, t) ==
    LET maps1 == updateUserIPMapping(maps, username, ip, t)
        ipCheck == checkIPLimit(ipl, ip, t)
        userCheck == checkUserLimit(usl, username, t)
        aggCheck == checkAggregationLimit(ipCheck.limits, maps1, username, t)
    IN IF ~ipCheck.res.allowed
       THEN [ip |-> ipCheck.limits, user |-> usl, maps |-> maps1, res |-> ipCheck.res]
       ELSE IF ~userCheck.res.allowed
       THEN [ip |-> ipCheck.limits, user |-> userCheck.limits, maps |-> maps1, res |-> userCheck.res]
       ELSE [ip |-> aggCheck.limits, user |-> userCheck.limits, maps |-> maps1, res |-> aggCheck.res]

\* recordComment: incrementIPCount, incrementUserCount, incrementUserIPMappingCount
\* in this order; each dereferences the entry its Map.get returns, and throws a
\* TypeError when the entry is absent, after the earlier increments were done
incrementCount(limits, key, t) ==
    Put(limits, key, [limits[key] EXCEPT !.count = @ + 1, !.lastComment = t])

incrementUserIPMappingCount(maps, username) ==
    Put(maps, username, [maps[username] EXCEPT !.totalDailyComments = @ + 1])

recordComment(ipl, usl, maps, ip, username, t) ==
    LET ipOk == Has(ipl, ip)
        userOk == ipOk /\ Has(usl, username)
        mapOk == userOk /\ Has(maps, username)
    IN [ip |-> IF ipOk THEN incrementCount(ipl, ip, t) ELSE ipl,
        user |-> IF userOk THEN incrementCount(usl, username, t) ELSE usl,
        maps |-> IF mapOk THEN incrementUserIPMappingCount(maps, username) ELSE maps,
        ipDone |-> ipOk, userDone |-> userOk, threw |-> ~mapOk]

----------------------------------------------------------------------------
(* checkRetrievalRateLimit, recordRetrieval and their helpers *)

_checkTimeInterval(lastTime, interval, reason, t) ==
    IF lastTime > 0 /\ t - lastTime < interval
    THEN Deny(reason, interval - (t - lastTime))
    ELSE Allow

checkRetrievalLimit(limits, key, t, reason) ==
    LET l1 == IF Has(limits, key) THEN limits ELSE Put(limits, key, NewEntry(t))
    IN [limits |-> l1,
        res |-> _checkTimeInterval(l1[key].lastRetrieval, RETRIEVAL_INTERVAL, reason, t)]

checkIPRetrievalLimit(limits, ip, t) == checkRetrievalLimit(limits, ip, t, "ip_retrieval_wait")

checkUserRetrievalLimit(limits, username, t) ==
    checkRetrievalLimit(limits, username, t, "user_retrieval_wait")

\* ipLimit?.lastRetrieval is undefined for an address without an entry, and
\* _checkTimeInterval allows what is not a number
checkRetrievalAggregationLimit(limits, maps, username, t) ==
    IF ~Has(maps, username) \/ Len(maps[username].ips) <= 1
    THEN Allow
    ELSE LET ips == maps[username].ips
             hit == {i \in 1..Len(ips) :
                        /\ Has(limits, ips[i])
                        /\ ~_checkTimeInterval(limits[ips[i]].lastRetrieval,
                                               RETRIEVAL_INTERVAL, "cross_ip_retrieval", t).allowed}
         IN IF hit = {} THEN Allow
            ELSE LET i == CHOOSE j \in hit : \A k \in hit : j <= k
                 IN _checkTimeInterval(limits[ips[i]].lastRetrieval,
                                       RETRIEVAL_INTERVAL, "cross_ip_retrieval", t)

\* (variant: the username checks run without a username too)
checkRetrievalRateLimit_AlwaysUser(ipl, usl, maps, ip, username, t) ==
    LET ipCheck == checkIPRetrievalLimit(ipl, ip, t)
        maps1 == updateUserIPMapping(maps, username, ip, t)
        userCheck == checkUserRetrievalLimit(usl, username, t)
        aggRes == checkRetrievalAggregationLimit(ipCheck.limits, maps1, username, t)
    IN IF ~ipCheck.res.allowed
       THEN [ip |-> ipCheck.limits, user |-> usl, maps |-> maps, res |-> ipCheck.res]
       ELSE [ip |-> ipCheck.limits, user |-> userCheck.limits, maps |-> maps1,
             res |-> IF ~userCheck.res.allowed THEN userCheck.res ELSE aggRes]

checkRetrievalRateLimit(ipl, usl, maps, ip, username, t) ==
    LET ipCheck == checkIPRetrievalLimit(ipl, ip, t)
        maps1 == updateUserIPMapping(maps, username, ip, t)
        userCheck == checkUserRetrievalLimit(usl, username, t)
        aggRes == checkRetrievalAggregationLimit(ipCheck.limits, maps1, username, t)
    IN IF ~ipCheck.res.allowed \/ username = NoUser
       THEN [ip |-> ipCheck.limits, user |-> usl, maps |-> maps, res |-> ipCheck.res]
       ELSE [ip |-> ipCheck.limits, user |-> userCheck.limits, maps |-> maps1,
             res |-> IF ~userCheck.res.allowed THEN userCheck.res ELSE aggRes]

\* (variant: recording a retrieval also starts a new daily window)
updateRetrievalTime_Reset(limits, key, t) ==
    IF Has(limits, key)
    THEN Put(limits, key, [limits[key] EXCEPT !.lastRetrieval = t, !.count = 0,
                                              !.lastReset = t])
    ELSE Put(limits, key, [NewEntry(t) EXCEPT !.lastRetrieval = t])

updateRetrievalTime(limits, key, t) ==
    IF Has(limits, key)
    THEN Put(limits, key, [limits[key] EXCEPT !.lastRetrieval = t])
    ELSE Put(limits, key, [NewEntry(t) EXCEPT !.lastRetrieval = t])

recordRetrieval(ipl, usl, ip, username, t) ==
    [ip |-> updateRetrievalTime(ipl, ip, t),
     user |-> IF username = NoUser THEN usl ELSE updateRetrievalTime(usl, username, t)]

----------------------------------------------------------------------------
(* Authentication attempts *)

\* (variant: the lockout still holds at lockoutUntil itself)
checkAuthRateLimit_Inclusive(limits, identifier, t) ==
    IF ~Has(limits, identifier) THEN Allow
    ELSE IF t <= limits[identifier].lockoutUntil
    THEN Deny("auth_locked", limits[identifier].lockoutUntil - t)
    ELSE Allow

checkAuthRateLimit(limits, identifier, t) ==
    IF ~Has(limits, identifier) THEN Allow
    ELSE IF t < limits[identifier].lockoutUntil
    THEN Deny("auth_locked", limits[identifier].lockoutUntil - t)
    ELSE Allow

\* the count after one more failure: a fresh 1 when the last attempt is older
\* than the lockout period
NextCount(e, t) == IF t - e.lastAttempt > LOCKOUT_PERIOD THEN 1 ELSE e.count + 1

\* (variant: the count is compared with > instead of >=)
recordFailedLogin_OffByOne(limits, identifier, t) ==
    LET e1 == IF ~Has(limits, identifier)
              THEN [count |-> 1, lastAttempt |-> t, lockoutUntil |-> 0]
              ELSE [limits[identifier] EXCEPT !.count = NextCount(limits[identifier], t),
                                              !.lastAttempt = t]
        e2 == IF e1.count > MAX_LOGIN_ATTEMPTS
              THEN [e1 EXCEPT !.lockoutUntil = t + LOCKOUT_PERIOD]
              ELSE e1
    IN Put(limits, identifier, e2)

\* (variant: the count never starts again at 1)
recordFailedLogin_NoRestart(limits, identifier, t) ==
    LET e1 == IF ~Has(limits, identifier)
              THEN [count |-> 1, lastAttempt |-> t, lockoutUntil |-> 0]
              ELSE [limits[identifier] EXCEPT !.count = @ + 1, !.lastAttempt = t]
        e2 == IF e1.count >= MAX_LOGIN_ATTEMPTS
              THEN [e1 EXCEPT !.lockoutUntil = t + LOCKOUT_PERIOD]
              ELSE e1
    IN Put(limits, identifier, e2)

recordFailedLogin(limits, identifier, t) ==
    LET e1 == IF ~Has(limits, identifier)
              THEN [count |-> 1, lastAttempt |-> t, lockoutUntil |-> 0]
              ELSE [limits[identifier] EXCEPT !.count = NextCount(limits[identifier], t),
                                              !.lastAttempt = t]
        e2 == IF e1.count >= MAX_LOGIN_ATTEMPTS
              THEN [e1 EXCEPT !.lockoutUntil = t + LOCKOUT_PERIOD]
              ELSE e1
    IN Put(limits, identifier, e2)

\* (variant: a success ends the lockout and keeps the count)
resetLoginAttempts_UnlockOnly(limits, identifier) ==
    IF Has(limits, identifier)
    THEN Put(limits, identifier, [limits[identifier] EXCEPT !.lockoutUntil = 0])
    ELSE limits

resetLoginAttempts(limits, identifier) ==
    IF Has(limits, identifier) THEN Remove(limits, identifier) ELSE limits

----------------------------------------------------------------------------
(* cleanup, run by setInterval *)

StaleLimit(e, t) == e.lastReset < t - DAY_IN_MS /\ e.lastComment < t - DAY_IN_MS

StaleMapping(m, t) == m.lastReset < t - DAY_IN_MS

\* (variant: an entry goes as soon as its lockout is over)
StaleAuth_LockOnly(e, t) == t > e.lockoutUntil

StaleAuth(e, t) == t > e.lockoutUntil /\ t - e.lastAttempt > LOCKOUT_PERIOD

\* the entries of m outside the set of deleted keys
Without(m, deleted) == [k \in (DOMAIN m) \ deleted |-> m[k]]

cleanup(ipl, usl, maps, auth, t) ==
    [ip |-> Without(ipl, {k \in DOMAIN ipl : StaleLimit(ipl[k], t)}),
     user |-> Without(usl, {k \in DOMAIN usl : StaleLimit(usl[k], t)}),
     maps |-> Without(maps, {k \in DOMAIN maps : StaleMapping(maps[k], t)}),
     auth |-> Without(auth, {k \in DOMAIN auth : StaleAuth(auth[k], t)})]

----------------------------------------------------------------------------
(* Requests in flight: a bag of [kind, ip, user, at]; at is the time of the
   request's check where the behaviour keeps the detailed history, else 0 *)

Req(kind, ip, user) ==
    [kind |-> kind, ip |-> ip, user |-> user, at |-> IF hist.track THEN now ELSE 0]
InFlight(r) == IF Has(pending, r) THEN pending[r] ELSE 0
RECURSIVE SumOver(_, _)
SumOver(m, S) ==
    IF S = {} THEN 0 ELSE LET k == CHOOSE x \in S : TRUE IN m[k] + SumOver(m, S \ {k})
PendingCount == SumOver(pending, DOMAIN pending)
Started(r) == Put(pending, r, InFlight(r) + 1)
Finished(r) == IF pending[r] > 1 THEN Put(pending, r, pending[r] - 1) ELSE Remove(pending, r)

\* What a handler of /addComment or /getComments answers at the step op:
\* c.json(body, status), with status 0 while the handler has not answered
NoAnswer == [status |-> 0, success |-> FALSE, type |-> "none"]
Answer(op, res, threw) ==
    IF op \in {"checkRateLimit", "checkRetrievalRateLimit"}
    THEN IF res.allowed THEN NoAnswer
         ELSE [status |-> 429, success |-> FALSE, type |-> "rate_limit"]
    ELSE IF op \in {"recordComment", "recordRetrieval"}
    THEN IF threw THEN [status |-> 500, success |-> FALSE, type |-> "none"]
         ELSE [status |-> 200, success |-> TRUE, type |-> "none"]
    ELSE IF op \in {"addCommentFailed", "getCommentsFailed"}
    THEN [status |-> 200, success |-> FALSE, type |-> "none"]
    ELSE NoAnswer

\* what getStatus returned, empty while the last call was another one
NoStatus == <<>>

Last(op, ip, user, res, threw) ==
    [op |-> op, ip |-> ip, user |-> user, res |-> res, threw |-> threw, at |-> now,
     answer |-> Answer(op, res, threw), status |-> NoStatus]

Zero(S) == [k \in S |-> 0]

\* The state after construction.  The history is empty; track says whether
\* the behaviour also keeps, for every entry, the time of the last check or
\* record that operated on it (touchIP, touchUser, touchMap), and the
\* identifiers whose authLimits entry the last cleanup deleted (swept), and
\* for every identifier the number of failures recorded since its lockout
\* last ran out, counted up to MAX_LOGIN_ATTEMPTS + 1 (since), which is kept when
\* tally is set.
Built(track, tally) ==
    /\ now = StartTime
    /\ DAILY_LIMIT = constructor(env).DAILY_LIMIT
    /\ ipLimits = EmptyMap
    /\ userLimits = EmptyMap
    /\ userIPMappings = EmptyMap
    /\ authLimits = EmptyMap
    /\ pending = EmptyMap
    /\ last = Last("init", "none", NoUser, Allow, FALSE)
    /\ hist = [postIP |-> Zero(IPs), postUser |-> Zero(Users),
               retrievalIP |-> Zero(IPs), retrievalUser |-> Zero(Users),
               streak |-> Zero(AuthIds), failAt |-> Zero(AuthIds),
               used |-> [u \in Users |-> {}],
               track |-> track, tally |-> tally,
               touchIP |-> Zero(IPs), touchUser |-> Zero(Users), touchMap |-> Zero(Users),
               swept |-> {}, since |-> Zero(AuthIds)]

Constructed(track) == Built(track, FALSE)

\* The state after construction in an environment that sets a daily limit and
\* leaves the two intervals at their defaults.
Start(track) ==
    /\ env \in {e \in Environments : /\ e.DAILY_LIMIT \in {"1", "2"}
                                     /\ e.COMMENT_INTERVAL = Unset
                                     /\ e.RETRIEVAL_INTERVAL = Unset}
    /\ Constructed(track)
    /\ DAILY_LIMIT \in DailyLimits

Init == Start(FALSE)

\* The history keeps the time of a key's last recorded post (retrieval, failed
\* login) while it is less than COMMENT_INTERVAL (RETRIEVAL_INTERVAL, at most
\* LOCKOUT_PERIOD) old, and 0 otherwise
Recent(times, window, t) == [k \in DOMAIN times |-> IF t - times[k] < window THEN times[k] ELSE 0]

Forget(h, t) ==
    [postIP |-> Recent(h.postIP, COMMENT_INTERVAL, t),
     postUser |-> Recent(h.postUser, COMMENT_INTERVAL, t),
     retrievalIP |-> Recent(h.retrievalIP, RETRIEVAL_INTERVAL, t),
     retrievalUser |-> Recent(h.retrievalUser, RETRIEVAL_INTERVAL, t),
     streak |-> [k \in DOMAIN h.streak |->
                    IF t - h.failAt[k] > LOCKOUT_PERIOD THEN 0 ELSE h.streak[k]],
     failAt |-> Recent(h.failAt, LOCKOUT_PERIOD + 1, t),
     used |-> h.used,
     track |-> h.track, tally |-> h.tally,
     touchIP |-> Recent(h.touchIP, DAY_IN_MS, t),
     touchUser |-> Recent(h.touchUser, DAY_IN_MS, t),
     touchMap |-> Recent(h.touchMap, DAY_IN_MS, t),
     swept |-> h.swept,
     since |-> [k \in DOMAIN h.since |->
                   IF Has(authLimits, k) /\ now < authLimits[k].lockoutUntil
                                         /\ t >= authLimits[k].lockoutUntil
                   THEN 0 ELSE h.since[k]]]

\* the history h after an operation at time t on the entries of the addresses
\* ips in ipLimits, of the usernames users in userLimits and of the usernames
\* maps in userIPMappings
Touch(h, ips, users, maps, t) ==
    IF ~h.track THEN h
    ELSE [h EXCEPT !.touchIP = [k \in IPs |-> IF k \in ips THEN t ELSE @[k]],
                   !.touchUser = [k \in Users |-> IF k \in users THEN t ELSE @[k]],
                   !.touchMap = [k \in Users |-> IF k \in maps THEN t ELSE @[k]]]

\* Date.now() advances
Tick ==
    /\ now < StartTime + MaxTime
    /\ now' = now + 1
    /\ last' = [Last("tick", "none", NoUser, Allow, FALSE) EXCEPT !.at = now + 1]
    /\ hist' = Forget(hist, now + 1)
    /\ UNCHANGED <<env, DAILY_LIMIT, ipLimits, userLimits, userIPMappings, authLimits, pending>>

(* The limiter reads the clock only to compare the age of a time it stored
   with COMMENT_INTERVAL, RETRIEVAL_INTERVAL, LOCKOUT_PERIOD or DAY_IN_MS, or to
   compare lockoutUntil with now, and 0 stands for a time never set.  A time
   more than DAY_IN_MS old behaves as any older one, so that a clock that goes
   on for ever is the clock standing at Horizon while every stored time grows
   older by one unit, down to Floor. *)
Horizon == StartTime + MaxTime
Floor == Horizon - DAY_IN_MS - 1

Older(t) == IF t = 0 THEN 0 ELSE IF t - 1 < Floor THEN Floor ELSE t - 1

OlderTimes(times) == [k \in DOMAIN times |-> Older(times[k])]

OlderLimits(limits) ==
    [k \in DOMAIN limits |-> [limits[k] EXCEPT !.lastReset = Older(@),
                                               !.lastComment = Older(@),
                                               !.lastRetrieval = Older(@)]]

OlderMappings(maps) == [k \in DOMAIN maps |-> [maps[k] EXCEPT !.lastReset = Older(@)]]

OlderAuth(auth) ==
    [k \in DOMAIN auth |-> [auth[k] EXCEPT !.lastAttempt = Older(@),
                                           !.lockoutUntil = Older(@)]]

OlderHistory(h) ==
    [h EXCEPT !.postIP = OlderTimes(@), !.postUser = OlderTimes(@),
              !.retrievalIP = OlderTimes(@), !.retrievalUser = OlderTimes(@),
              !.failAt = OlderTimes(@),
              !.touchIP = OlderTimes(@), !.touchUser = OlderTimes(@),
              !.touchMap = OlderTimes(@)]

\* Date.now() advances past Horizon (the requests in flight carry no time)
Slide ==
    /\ now = Horizon
    /\ ~hist.track
    /\ ipLimits' = OlderLimits(ipLimits)
    /\ userLimits' = OlderLimits(userLimits)
    /\ userIPMappings' = OlderMappings(userIPMappings)
    /\ authLimits' = OlderAuth(authLimits)
    /\ last' = Last("tick", "none", NoUser, Allow, FALSE)
    /\ hist' = OlderHistory(Forget(hist, now + 1))
    /\ UNCHANGED <<now, env, DAILY_LIMIT, pending>>

\* (variant: the handler goes on to addComment whatever the check answered)
AddCommentCheck_IgnoreDenial(ip, user) ==
    /\ PendingCount < MaxPending
    /\ LET c == checkRateLimit(ipLimits, userLimits, userIPMappings, ip, user, now)
       IN /\ ipLimits' = c.ip
          /\ userLimits' = c.user
          /\ userIPMappings' = c.maps
          /\ pending' = Started(Req("post", ip, user))
          /\ last' = Last("checkRateLimit", ip, user, c.res, FALSE)
          /\ hist' = Touch([hist EXCEPT !.used[user] = @ \cup {ip}], {ip},
                           IF c.res.reason \in {"ip_daily", "ip_wait"} THEN {} ELSE {user},
                           {user}, now)
    /\ UNCHANGED <<now, env, DAILY_LIMIT, authLimits>>

\* POST /addComment up to its await of addComment: the check, and the 429 answer when denied
AddCommentCheck(ip, user) ==
    /\ PendingCount < MaxPending
    /\ LET c == checkRateLimit(ipLimits, userLimits, userIPMappings, ip, user, now)
       IN /\ ipLimits' = c.ip
          /\ userLimits' = c.user
          /\ userIPMappings' = c.maps
          /\ pending' = IF c.res.allowed THEN Started(Req("post", ip, user)) ELSE pending
          /\ last' = Last("checkRateLimit", ip, user, c.res, FALSE)
          /\ hist' = Touch([hist EXCEPT !.used[user] = @ \cup {ip}], {ip},
                           IF c.res.reason \in {"ip_daily", "ip_wait"} THEN {} ELSE {user},
                           {user}, now)
    /\ UNCHANGED <<now, env, DAILY_LIMIT, authLimits>>

\* POST /addComment after addComment succeeded: recordComment
AddCommentRecord(r) ==
    /\ r.kind = "post"
    /\ LET c == recordComment(ipLimits, userLimits, userIPMappings, r.ip, r.user, now)
       IN /\ ipLimits' = c.ip
          /\ userLimits' = c.user
          /\ userIPMappings' = c.maps
          /\ last' = Last("recordComment", r.ip, r.user, Allow, c.threw)
          /\ hist' = Touch([hist EXCEPT !.postIP[r.ip] = IF c.ipDone THEN now ELSE @,
                                        !.postUser[r.user] = IF c.userDone THEN now ELSE @],
                           IF c.ipDone THEN {r.ip} ELSE {},
                           IF c.userDone THEN {r.user} ELSE {},
                           IF c.threw THEN {} ELSE {r.user}, now)
    /\ pending' = Finished(r)
    /\ UNCHANGED <<now, env, DAILY_LIMIT, authLimits>>

\* (variant: the post is recorded although addComment failed)
AddCommentFail_Records(r) ==
    /\ r.kind = "post"
    /\ LET c == recordComment(ipLimits, userLimits, userIPMappings, r.ip, r.user, now)
       IN /\ ipLimits' = c.ip
          /\ userLimits' = c.user
          /\ userIPMappings' = c.maps
    /\ pending' = Finished(r)
    /\ last' = Last("addCommentFailed", r.ip, r.user, Allow, FALSE)
    /\ UNCHANGED <<now, env, DAILY_LIMIT, authLimits, hist>>

\* POST /addComment after addComment failed: nothing is recorded
AddCommentFail(r) ==
    /\ r.kind = "post"
    /\ pending' = Finished(r)
    /\ last' = Last("addCommentFailed", r.ip, r.user, Allow, FALSE)
    /\ UNCHANGED <<now, env, DAILY_LIMIT, ipLimits, userLimits, userIPMappings, authLimits, hist>>

\* GET /getComments up to its await of getComments
GetCommentsCheck(ip, user) ==
    /\ PendingCount < MaxPending
    /\ LET c == checkRetrievalRateLimit(ipLimits, userLimits, userIPMappings, ip, user, now)
       IN /\ ipLimits' = c.ip
          /\ userLimits' = c.user
          /\ userIPMappings' = c.maps
          /\ pending' = IF c.res.allowed THEN Started(Req("get", ip, user)) ELSE pending
          /\ last' = Last("checkRetrievalRateLimit", ip, user, c.res, FALSE)
          /\ LET reached == IF user = NoUser \/ c.res.reason = "ip_retrieval_wait"
                            THEN {} ELSE {user}
             IN hist' = Touch(IF user = NoUser THEN hist
                              ELSE [hist EXCEPT !.used[user] = @ \cup {ip}],
                              {ip}, reached, reached, now)
    /\ UNCHANGED <<now, env, DAILY_LIMIT, authLimits>>

\* GET /getComments after getComments succeeded: recordRetrieval
GetCommentsRecord(r) ==
    /\ r.kind = "get"
    /\ LET c == recordRetrieval(ipLimits, userLimits, r.ip, r.user, now)
       IN /\ ipLimits' = c.ip
          /\ userLimits' = c.user
    /\ last' = Last("recordRetrieval", r.ip, r.user, Allow, FALSE)
    /\ hist' = Touch([hist EXCEPT !.retrievalIP[r.ip] = now,
                                  !.retrievalUser = IF r.user = NoUser THEN @
                                                    ELSE [@ EXCEPT ![r.user] = now]],
                     {r.ip}, IF r.user = NoUser THEN {} ELSE {r.user}, {}, now)
    /\ pending' = Finished(r)
    /\ UNCHANGED <<now, env, DAILY_LIMIT, userIPMappings, authLimits>>

\* GET /getComments after getComments failed
GetCommentsFail(r) ==
    /\ r.kind = "get"
    /\ pending' = Finished(r)
    /\ last' = Last("getCommentsFailed", r.ip, r.user, Allow, FALSE)
    /\ UNCHANGED <<now, env, DAILY_LIMIT, ipLimits, userLimits, userIPMappings, authLimits, hist>>

\* (variant: the request goes on to loginUser whatever the two checks said)
LoginCheck_Unchecked(ip, emailOrUsername) ==
    /\ PendingCount < MaxPending
    /\ LET identifier == toLowerCase(emailOrUsername)
           ipCheck == checkAuthRateLimit(authLimits, ip, now)
           idCheck == checkAuthRateLimit(authLimits, identifier, now)
           res == IF ~ipCheck.allowed THEN ipCheck ELSE idCheck
       IN /\ pending' = Started(Req("login", ip, identifier))
          /\ last' = Last("checkAuthRateLimit", ip, identifier, res, FALSE)
    /\ UNCHANGED <<now, env, DAILY_LIMIT, ipLimits, userLimits, userIPMappings, authLimits, hist>>

\* POST /login up to its await of loginUser: the address is checked, then the identifier
LoginCheck(ip, emailOrUsername) ==
    /\ PendingCount < MaxPending
    /\ LET identifier == toLowerCase(emailOrUsername)
           ipCheck == checkAuthRateLimit(authLimits, ip, now)
           idCheck == checkAuthRateLimit(authLimits, identifier, now)
           res == IF ~ipCheck.allowed THEN ipCheck ELSE idCheck
       IN /\ pending' = IF res.allowed THEN Started(Req("login", ip, identifier)) ELSE pending
          /\ last' = Last("checkAuthRateLimit", ip, identifier, res, FALSE)
    /\ UNCHANGED <<now, env, DAILY_LIMIT, ipLimits, userLimits, userIPMappings, authLimits, hist>>

\* the streak of consecutive failures, each within the lockout period of the one
\* before (Forget ends a streak whose last failure is older than that)
Streak(id, t) == hist.streak[id] + 1

\* (variant: the failure is recorded for the address only)
LoginFail_AddressOnly(r) ==
    /\ r.kind = "login"
    /\ authLimits' = recordFailedLogin(authLimits, r.ip, now)
    /\ hist' = [hist EXCEPT !.streak = [id \in AuthIds |->
                                           IF id \in {r.ip, r.user} THEN Streak(id, now) ELSE @[id]],
                            !.failAt = [id \in AuthIds |->
                                           IF id \in {r.ip, r.user} THEN now ELSE @[id]]]
    /\ pending' = Finished(r)
    /\ last' = Last("recordFailedLogin", r.ip, r.user, Allow, FALSE)
    /\ UNCHANGED <<now, env, DAILY_LIMIT, ipLimits, userLimits, userIPMappings>>

\* POST /login after loginUser refused the credentials
LoginFail(r) ==
    /\ r.kind = "login"
    /\ authLimits' = recordFailedLogin(recordFailedLogin(authLimits, r.ip, now), r.user, now)
    /\ hist' = [hist EXCEPT !.streak = [id \in AuthIds |->
                                           IF id \in {r.ip, r.user} THEN Streak(id, now) ELSE @[id]],
                            !.failAt = [id \in AuthIds |->
                                           IF id \in {r.ip, r.user} THEN now ELSE @[id]],
                            !.since = [id \in AuthIds |->
                                          IF hist.tally /\ id \in {r.ip, r.user}
                                                        /\ @[id] <= MAX_LOGIN_ATTEMPTS
                                          THEN @[id] + 1 ELSE @[id]]]
    /\ pending' = Finished(r)
    /\ last' = Last("recordFailedLogin", r.ip, r.user, Allow, FALSE)
    /\ UNCHANGED <<now, env, DAILY_LIMIT, ipLimits, userLimits, userIPMappings>>

\* POST /login after loginUser accepted the credentials (last.res keeps what
\* the identifier's check answered just before its entry was removed)
LoginSuccess(r) ==
    /\ r.kind = "login"
    /\ authLimits' = resetLoginAttempts(resetLoginAttempts(authLimits, r.ip), r.user)
    /\ hist' = [hist EXCEPT !.streak = [id \in AuthIds |->
                                           IF id \in {r.ip, r.user} THEN 0 ELSE @[id]]]
    /\ pending' = Finished(r)
    /\ last' = Last("resetLoginAttempts", r.ip, r.user,
                    checkAuthRateLimit(authLimits, r.user, now), FALSE)
    /\ UNCHANGED <<now, env, DAILY_LIMIT, ipLimits, userLimits, userIPMappings>>

\* the hourly sweep
Cleanup ==
    /\ LET c == cleanup(ipLimits, userLimits, userIPMappings, authLimits, now)
       IN /\ ipLimits' = c.ip
          /\ userLimits' = c.user
          /\ userIPMappings' = c.maps
          /\ authLimits' = c.auth
          /\ hist' = IF hist.track
                     THEN [hist EXCEPT !.swept = (DOMAIN authLimits) \ (DOMAIN c.auth)]
                     ELSE hist
    /\ last' = Last("cleanup", "none", NoUser, Allow, FALSE)
    /\ UNCHANGED <<now, env, DAILY_LIMIT, pending>>

\* The server taking posts only, under each configured daily limit
Next ==
    \/ Tick
    \/ \E ip \in IPs, user \in Users : AddCommentCheck(ip, user)
    \/ \E r \in DOMAIN pending : AddCommentRecord(r)
    \/ \E r \in DOMAIN pending : AddCommentFail(r)
    \/ Cleanup

Spec == Init /\ [][Next]_vars

\* The server taking retrievals under a username from every address, and
\* posts from one address
NextRetrieval ==
    \/ Tick
    \/ \E user \in Users : AddCommentCheck("A", user)
    \/ \E r \in DOMAIN pending : AddCommentRecord(r)
    \/ \E ip \in IPs, user \in Users : GetCommentsCheck(ip, user)
    \/ \E r \in DOMAIN pending : GetCommentsRecord(r)
    \/ \E r \in DOMAIN pending : GetCommentsFail(r)
    \/ Cleanup

\* configured with a daily limit of 2
InitRetrieval == Init /\ DAILY_LIMIT = 2

SpecRetrieval == InitRetrieval /\ [][NextRetrieval]_vars

\* The server taking logins only
NextAuth ==
    \/ Tick
    \/ \E ip \in LoginIPs, str \in LoginInputs : LoginCheck(ip, str)
    \/ \E r \in DOMAIN pending : LoginFail(r)
    \/ \E r \in DOMAIN pending : LoginSuccess(r)
    \/ Cleanup

InitAuth == Init /\ DAILY_LIMIT = 1

SpecAuth == InitAuth /\ [][NextAuth]_vars

\* The server taking logins only, the history keeping what each sweep deleted
InitAuthTracked == Start(TRUE) /\ DAILY_LIMIT = 1

SpecAuthTracked == InitAuthTracked /\ [][NextAuth]_vars

\* Logins with the tally of failures since the last end of a lockout.
InitAuthTally ==
    /\ env \in {e \in Environments : /\ e.DAILY_LIMIT = "1"
                                     /\ e.COMMENT_INTERVAL = Unset
                                     /\ e.RETRIEVAL_INTERVAL = Unset}
    /\ Built(FALSE, TRUE)

\* The server taking logins one at a time: a login is checked only when no
\* other is in flight
NextAuthSerial ==
    \/ Tick
    \/ /\ pending = EmptyMap
       /\ \E ip \in LoginIPs, str \in LoginInputs : LoginCheck(ip, str)
    \/ \E r \in DOMAIN pending : LoginFail(r)
    \/ \E r \in DOMAIN pending : LoginSuccess(r)
    \/ Cleanup

SpecAuthSerial == InitAuth /\ [][NextAuthSerial]_vars

\* The server taking the logins of one account, in flight together, with
\* the tally of failures since the last end of a lockout
NextAuthAccount ==
    \/ Tick
    \/ \E ip \in LoginIPs, str \in {"alice", "Alice"} : LoginCheck(ip, str)
    \/ \E r \in DOMAIN pending : LoginFail(r)
    \/ \E r \in DOMAIN pending : LoginSuccess(r)
    \/ Cleanup

SpecAuthAccount == InitAuthTally /\ [][NextAuthAccount]_vars

\* x-forwarded-for is a header of the client's choosing, so that an address
\* can be the string that is another client's login identifier.  Resident
\* logs in as alice from address A; Stranger logs in as bob and sends alice
\* as its address.  The two never use a common address.
Resident == [ip |-> "A", user |-> "alice"]
Stranger == [ip |-> "alice", user |-> "bob"]

NextStrangers ==
    \/ Tick
    \/ \E c \in {Resident, Stranger} : LoginCheck(c.ip, c.user)
    \/ \E r \in DOMAIN pending : LoginFail(r)
    \/ \E r \in DOMAIN pending : LoginSuccess(r)

SpecStrangers == InitAuth /\ [][NextStrangers]_vars

\* The server taking the logins of alice, from address A and from a client
\* whose address string is alice as well
NextSameKey ==
    \/ Tick
    \/ \E ip \in {"A", "alice"} : LoginCheck(ip, "alice")
    \/ \E r \in DOMAIN pending : LoginFail(r)
    \/ \E r \in DOMAIN pending : LoginSuccess(r)
    \/ Cleanup

SpecSameKey == InitAuth /\ [][NextSameKey]_vars

\* The server taking posts one at a time while time goes on for ever: the
\* clock advances whatever else happens, and setInterval runs cleanup every hour
NextForever ==
    \/ Tick
    \/ Slide
    \/ /\ pending = EmptyMap
       /\ \E ip \in IPs, user \in Users : AddCommentCheck(ip, user)
    \/ \E r \in DOMAIN pending : AddCommentRecord(r)
    \/ Cleanup

SpecForever ==
    /\ InitRetrieval
    /\ [][NextForever]_vars
    /\ WF_vars(Tick \/ Slide)
    /\ WF_vars(Cleanup)

\* The server taking the posts, the retrievals and the failing logins of one
\* account from one address
NextAccount ==
    \/ Tick
    \/ \E user \in Users : AddCommentCheck("A", user)
    \/ \E r \in DOMAIN pending : AddCommentRecord(r)
    \/ \E user \in Users : GetCommentsCheck("A", user)
    \/ \E r \in DOMAIN pending : GetCommentsRecord(r)
    \/ \E user \in Users : LoginCheck("A", user)
    \/ \E r \in DOMAIN pending : LoginFail(r)

SpecAccount == InitAuth /\ [][NextAccount]_vars

\* The server taking posts and retrievals of a username from one address,
\* the history keeping when each entry was last operated on and when each
\* request in flight was checked
NextTracked ==
    \/ Tick
    \/ \E user \in Users : AddCommentCheck("A", user)
    \/ \E r \in DOMAIN pending : AddCommentRecord(r)
    \/ \E r \in DOMAIN pending : AddCommentFail(r)
    \/ \E user \in Users : GetCommentsCheck("A", user)
    \/ \E r \in DOMAIN pending : GetCommentsRecord(r)
    \/ \E r \in DOMAIN pending : GetCommentsFail(r)
    \/ Cleanup

InitTracked == Start(TRUE) /\ DAILY_LIMIT = 2

SpecTracked == InitTracked /\ [][NextTracked]_vars

\* The server taking posts only, the history keeping when each entry was last
\* operated on
SpecLinkage == Start(TRUE) /\ [][Next]_vars

(* The error text of a denial quotes Math.ceil(remaining / unit), remaining
   in milliseconds.  The model's clock is coarser than a millisecond, so a
   remaining time of r model units out of a window of w stands for every
   number of milliseconds in the r-th of the w equal parts of the real window. *)
MS_PER_SECOND == 1000
MS_PER_MINUTE == 60000
MS_PER_HOUR == 3600000

DailyReasons == {"ip_daily", "user_daily", "cross_ip"}
PostWaitReasons == {"ip_wait", "user_wait"}
RetrievalWaitReasons == {"ip_retrieval_wait", "user_retrieval_wait", "cross_ip_retrieval"}

\* the window a denial of this reason counts down, in model units and in milliseconds
Window(reason) ==
    IF reason \in DailyReasons THEN DAY_IN_MS
    ELSE IF reason \in PostWaitReasons THEN COMMENT_INTERVAL
    ELSE IF reason \in RetrievalWaitReasons THEN RETRIEVAL_INTERVAL
    ELSE LOCKOUT_PERIOD
WindowMs(reason) ==
    IF reason \in DailyReasons THEN 24 * MS_PER_HOUR
    ELSE IF reason \in PostWaitReasons THEN 5000
    ELSE IF reason \in RetrievalWaitReasons THEN 1000
    ELSE 15 * MS_PER_MINUTE

\* the unit the text of the denial counts in
UnitMs(reason) ==
    IF reason \in DailyReasons THEN MS_PER_HOUR
    ELSE IF reason = "auth_locked" THEN MS_PER_MINUTE
    ELSE MS_PER_SECOND

\* milliseconds a remaining time of r model units stands for: both ends of its
\* part of the window, and the values around one unit above its lower end
RemainingMs(reason, r) ==
    LET part == WindowMs(reason) \div Window(reason)
        low == (r - 1) * part
    IN {ms \in {low + 1, low + UnitMs(reason), low + UnitMs(reason) + 1, r * part} :
           ms <= r * part}

\* (variant: the quotient is rounded down)
Ceil_Floor(x, unit) == x \div unit

\* Math.ceil(x / unit) for integers x and unit > 0
Ceil(x, unit) == IF x % unit = 0 THEN x \div unit ELSE (x \div unit) + 1

\* the numbers the text of a denial may quote
Quotes(res) == {Ceil(ms, UnitMs(res.reason)) : ms \in RemainingMs(res.reason, res.remaining)}

\* a post (a retrieval, a login) has been checked in this run and is in flight
\* or has been recorded
PostSeen ==
    \/ \E r \in DOMAIN pending : r.kind = "post"
    \/ \E k \in DOMAIN ipLimits : ipLimits[k].lastComment > 0
RetrievalSeen ==
    \/ \E r \in DOMAIN pending : r.kind = "get"
    \/ \E k \in DOMAIN ipLimits : ipLimits[k].lastRetrieval > 0
LoginSeen ==
    \/ \E r \in DOMAIN pending : r.kind = "login"
    \/ authLimits # EmptyMap

\* The server taking one kind of request in a run: posts only, or retrievals
\* under a username only, or failing logins only
NextQuote ==
    \/ Tick
    \/ /\ ~RetrievalSeen /\ ~LoginSeen
       /\ \E ip \in IPs, user \in Users : AddCommentCheck(ip, user)
    \/ \E r \in DOMAIN pending : AddCommentRecord(r)
    \/ /\ ~PostSeen /\ ~LoginSeen
       /\ \E ip \in IPs, user \in Users : GetCommentsCheck(ip, user)
    \/ \E r \in DOMAIN pending : GetCommentsRecord(r)
    \/ /\ ~PostSeen /\ ~RetrievalSeen
       /\ \E ip \in LoginIPs, str \in LoginInputs : LoginCheck(ip, str)
    \/ \E r \in DOMAIN pending : LoginFail(r)

SpecQuote == Init /\ [][NextQuote]_vars

\* The server taking posts only or the failing logins of one account only,
\* one request at a time, while time goes on for ever; cleanup may run or not.  A login is
\* taken while no count is past MAX_LOGIN_ATTEMPTS, which keeps the counts
\* finite.
NextPatience ==
    \/ Tick
    \/ Slide
    \/ /\ pending = EmptyMap /\ ~LoginSeen
       /\ \E ip \in IPs, user \in Users : AddCommentCheck(ip, user)
    \/ \E r \in DOMAIN pending : AddCommentRecord(r)
    \/ /\ pending = EmptyMap /\ ~PostSeen
       /\ \A k \in DOMAIN authLimits : authLimits[k].count <= MAX_LOGIN_ATTEMPTS
       /\ \E ip \in LoginIPs, str \in {"alice", "Alice"} : LoginCheck(ip, str)
    \/ \E r \in DOMAIN pending : LoginFail(r)
    \/ Cleanup

SpecPatience == Init /\ [][NextPatience]_vars /\ WF_vars(Tick \/ Slide)

\* The server taking posts one at a time: a request is checked only when no
\* other is in flight, and every allowed one has its post recorded
NextSerial ==
    \/ Tick
    \/ /\ pending = EmptyMap
       /\ \E ip \in IPs, user \in Users : AddCommentCheck(ip, user)
    \/ \E r \in DOMAIN pending : AddCommentRecord(r)
    \/ Cleanup

SpecSerial == Init /\ [][NextSerial]_vars

\* Array.from over the Set of a mapping, which iterates in insertion order
ArrayFrom(ips) == [i \in 1..Len(ips) |-> ips[i]]

\* the four totals of getStatus
Totals(ipl, usl, maps, auth) ==
    [f \in {"totalIPs", "totalUsers", "totalMappings", "totalAuth"} |->
        IF f = "totalIPs" THEN Cardinality(DOMAIN ipl)
        ELSE IF f = "totalUsers" THEN Cardinality(DOMAIN usl)
        ELSE IF f = "totalMappings" THEN Cardinality(DOMAIN maps)
        ELSE Cardinality(DOMAIN auth)]

\* status.field = value when the argument was given and its key is present
Detail(status, field, given, m, k, value) ==
    IF given /\ Has(m, k) THEN Put(status, field, value) ELSE status

\* (variant: without an ip, the status shows the entry of some address)
getStatus_Leaky(ipl, usl, maps, auth, ip, username) ==
    LET s0 == Totals(ipl, usl, maps, auth)
    IN IF DOMAIN ipl = {} THEN s0
       ELSE LET k == IF ip # NoIP /\ Has(ipl, ip) THEN ip ELSE CHOOSE x \in DOMAIN ipl : TRUE
            IN Put(s0, "ipStatus", ipl[k])

getStatus(ipl, usl, maps, auth, ip, username) ==
    LET s0 == Totals(ipl, usl, maps, auth)
        s1 == Detail(s0, "ipStatus", ip # NoIP, ipl, ip,
                     IF Has(ipl, ip) THEN ipl[ip] ELSE NoStatus)
        s2 == Detail(s1, "ipAuthStatus", ip # NoIP, auth, ip,
                     IF Has(auth, ip) THEN auth[ip] ELSE NoStatus)
        s3 == Detail(s2, "userStatus", username # NoUser, usl, username,
                     IF Has(usl, username) THEN usl[username] ELSE NoStatus)
        s4 == Detail(s3, "userMapping", username # NoUser, maps, username,
                     IF Has(maps, username)
                     THEN [maps[username] EXCEPT !.ips = ArrayFrom(@)] ELSE NoStatus)
    IN Detail(s4, "userAuthStatus", username # NoUser, auth, username,
              IF Has(auth, username) THEN auth[username] ELSE NoStatus)

\* a call of rateLimiter.getStatus(ip, username); either argument may be left out
GetStatus(ip, username) ==
    /\ last' = [Last("getStatus", ip, username, Allow, FALSE) EXCEPT
                   !.status = getStatus(ipLimits, userLimits, userIPMappings, authLimits,
                                        ip, username)]
    /\ UNCHANGED <<now, env, DAILY_LIMIT, ipLimits, userLimits, userIPMappings, authLimits,
                   pending, hist>>

\* The server taking posts and logins within one instant of the clock, with
\* getStatus called at any moment
NextStatus ==
    \/ \E ip \in IPs, user \in Users : AddCommentCheck(ip, user)
    \/ \E r \in DOMAIN pending : AddCommentRecord(r)
    \/ \E ip \in LoginIPs, str \in LoginInputs : LoginCheck(ip, str)
    \/ \E r \in DOMAIN pending : LoginFail(r)
    \/ \E ip \in IPs \cup {NoIP}, user \in LoginNames \cup {NoUser} : GetStatus(ip, user)

InitStatus == Init /\ DAILY_LIMIT = 1

SpecStatus == InitStatus /\ [][NextStatus]_vars

\* The server taking retrievals with and without a username
NextAnonymous ==
    \/ Tick
    \/ \E ip \in IPs, user \in Users \cup {NoUser} : GetCommentsCheck(ip, user)
    \/ \E r \in DOMAIN pending : GetCommentsRecord(r)
    \/ Cleanup

InitAnonymous == Init /\ DAILY_LIMIT = 2

SpecAnonymous == InitAnonymous /\ [][NextAnonymous]_vars

\* The server constructed in any environment that makes the two intervals the
\* values the model's checks use, taking posts and retrievals from one address
NextConfig ==
    \/ Tick
    \/ \E user \in Users : AddCommentCheck("A", user)
    \/ \E r \in DOMAIN pending : AddCommentRecord(r)
    \/ \E user \in Users : GetCommentsCheck("A", user)
    \/ \E r \in DOMAIN pending : GetCommentsRecord(r)

InitConfig ==
    /\ env \in {e \in Environments :
                   /\ constructor(e).COMMENT_INTERVAL = COMMENT_INTERVAL
                   /\ constructor(e).RETRIEVAL_INTERVAL = RETRIEVAL_INTERVAL}
    /\ Constructed(FALSE)

SpecConfig == InitConfig /\ [][NextConfig]_vars

----------------------------------------------------------------------------
(* Properties *)

\* what checkRateLimit would do and return in the current state
PostCheck(ip, user) == checkRateLimit(ipLimits, userLimits, userIPMappings, ip, user, now)

IsPostCheck == last.op = "checkRateLimit"

\* the entry's daily window is over
Stale(e) == now - e.lastReset >= DAY_IN_MS

\* the entry's count has reached the limit inside its daily window
AtCap(e) == e.count >= DAILY_LIMIT /\ ~Stale(e)

\* C1: while a post recorded for an address or for a username is less than
\* COMMENT_INTERVAL old, every post check that involves the key is denied (for
\* a username also from another address); a check is denied for the spacing of
\* a key only while such a post is less than COMMENT_INTERVAL old.
C1_PostSpacing ==
    /\ \A ip \in IPs, user \in Users :
          (hist.postIP[ip] > 0 \/ hist.postUser[user] > 0) => ~PostCheck(ip, user).res.allowed
    /\ IsPostCheck =>
          /\ (hist.postIP[last.ip] > 0 \/ hist.postUser[last.user] > 0) => ~last.res.allowed
          /\ last.res.reason = "ip_wait" => hist.postIP[last.ip] > 0
          /\ last.res.reason = "user_wait" => hist.postUser[last.user] > 0

\* a username that posted less than COMMENT_INTERVAL ago, at an earlier time,
\* is denied for its spacing at an address without a recent post
C1_Witness ==
    /\ IsPostCheck /\ last.res.reason = "user_wait"
    /\ hist.postIP[last.ip] = 0
    /\ hist.postUser[last.user] > 0 /\ hist.postUser[last.user] < now

\* C2: a key whose count has reached DAILY_LIMIT inside its daily window has
\* its check denied with the daily-limit reason of the key, whether or not
\* COMMENT_INTERVAL has passed since its last post; every post check that
\* involves the key is denied.
C2_DailyCap ==
    /\ \A ip \in IPs, user \in Users :
          (Has(ipLimits, ip) /\ AtCap(ipLimits[ip])) =>
              /\ checkIPLimit(ipLimits, ip, now).res.reason = "ip_daily"
              /\ PostCheck(ip, user).res.reason = "ip_daily"
    /\ \A ip \in IPs, user \in Users :
          (Has(userLimits, user) /\ AtCap(userLimits[user])) =>
              /\ checkUserLimit(userLimits, user, now).res.reason = "user_daily"
              /\ PostCheck(ip, user).res.reason \in {"ip_daily", "ip_wait", "user_daily"}
    /\ IsPostCheck =>
          /\ AtCap(ipLimits[last.ip]) => last.res.reason = "ip_daily"
          /\ (Has(userLimits, last.user) /\ AtCap(userLimits[last.user])) =>
                 last.res.reason \in {"ip_daily", "ip_wait", "user_daily"}

\* limit 2: the check is denied for the daily limit although the spacing has passed
C2_Witness ==
    /\ IsPostCheck /\ last.res.reason = "ip_daily"
    /\ DAILY_LIMIT = 2
    /\ now - ipLimits[last.ip].lastComment >= COMMENT_INTERVAL

\* C3: once a key's daily window is over, the key's check sets its count to 0
\* and its lastReset to now, whatever the count was, and does not deny for
\* the key's daily limit (checkUserLimit runs when the address check allows).
C3_DailyReset ==
    /\ \A ip \in IPs, user \in Users :
          (Has(ipLimits, ip) /\ Stale(ipLimits[ip])) =>
              LET c == PostCheck(ip, user)
              IN /\ c.ip[ip].count = 0 /\ c.ip[ip].lastReset = now
                 /\ c.res.reason # "ip_daily"
    /\ \A ip \in IPs, user \in Users :
          (Has(userLimits, user) /\ Stale(userLimits[user])) =>
              LET u == checkUserLimit(userLimits, user, now)
                  c == PostCheck(ip, user)
              IN /\ u.limits[user].count = 0 /\ u.limits[user].lastReset = now
                 /\ u.res.reason # "user_daily"
                 /\ c.res.reason # "user_daily"
                 /\ c.res.reason \notin {"ip_daily", "ip_wait"} =>
                        c.user[user].count = 0 /\ c.user[user].lastReset = now
    /\ IsPostCheck =>
          /\ ~Stale(ipLimits[last.ip])
          /\ last.res.reason \notin {"ip_daily", "ip_wait"} => ~Stale(userLimits[last.user])

\* limit 1: an address and a username that had posted, and so had used up
\* the limit, are allowed again by a check that reset both counts
C3_Witness ==
    /\ IsPostCheck /\ last.res.allowed
    /\ DAILY_LIMIT = 1
    /\ ipLimits[last.ip].count = 0 /\ ipLimits[last.ip].lastComment > 0
    /\ ipLimits[last.ip].lastReset = now
    /\ userLimits[last.user].count = 0 /\ userLimits[last.user].lastComment > 0
    /\ userLimits[last.user].lastReset = now

\* the entry e1 a check leaves for an entry e0 (or for no entry)
Unconsumed(m0, m1) ==
    /\ DOMAIN m0 \subseteq DOMAIN m1
    /\ \A k \in DOMAIN m1 :
          IF Has(m0, k)
          THEN /\ m1[k].lastComment = m0[k].lastComment
               /\ \/ m1[k].count = m0[k].count
                  \/ m1[k].count = 0 /\ Stale(m0[k])
          ELSE m1[k].count = 0 /\ m1[k].lastComment = 0

\* C4: checkRateLimit, allowed or denied, increments no count and changes no
\* lastComment; it changes a count only by the daily reset to 0; the same
\* check repeated at the same time returns the same result.
C4_CheckConsumesNothing ==
    \A ip \in IPs, user \in Users :
        LET c == PostCheck(ip, user)
            again == checkRateLimit(c.ip, c.user, c.maps, ip, user, now)
        IN /\ Unconsumed(ipLimits, c.ip)
           /\ Unconsumed(userLimits, c.user)
           /\ \A u \in DOMAIN c.maps :
                 IF Has(userIPMappings, u)
                 THEN \/ c.maps[u].totalDailyComments = userIPMappings[u].totalDailyComments
                      \/ c.maps[u].totalDailyComments = 0 /\ Stale(userIPMappings[u])
                 ELSE c.maps[u].totalDailyComments = 0
           /\ again.res = c.res

\* two checks of the same address and username were allowed with no record
\* between them, the address having a post counted
C4_Witness ==
    /\ IsPostCheck /\ last.res.allowed
    /\ InFlight(Req("post", last.ip, last.user)) = 2
    /\ ipLimits[last.ip].count = 1

\* C7: when the username's mapping (this check's address added) holds more
\* than one address and one of them has count + totalDailyComments >=
\* DAILY_LIMIT inside its daily window, the post check is denied.
C7_CrossAddress ==
    /\ \A ip \in IPs, user \in Users :
          LET m == updateUserIPMapping(userIPMappings, user, ip, now)[user]
          IN (/\ Len(m.ips) > 1
              /\ \E i \in 1..Len(m.ips) :
                    /\ Has(ipLimits, m.ips[i])
                    /\ ~Stale(ipLimits[m.ips[i]])
                    /\ ipLimits[m.ips[i]].count + m.totalDailyComments >= DAILY_LIMIT)
             => ~PostCheck(ip, user).res.allowed
    /\ (IsPostCheck /\ last.res.allowed) =>
          LET m == userIPMappings[last.user]
          IN Len(m.ips) > 1 =>
                \A i \in 1..Len(m.ips) :
                    Has(ipLimits, m.ips[i]) =>
                        ipLimits[m.ips[i]].count + m.totalDailyComments < DAILY_LIMIT

\* denied for the cross-address limit with the address and the username
\* below the limit (and past their spacing: their own checks passed)
C7_Witness ==
    /\ IsPostCheck /\ last.res.reason = "cross_ip"
    /\ ipLimits[last.ip].count < DAILY_LIMIT
    /\ userLimits[last.user].count < DAILY_LIMIT

\* a check from an address that never posted, by a username that uses more
\* than one address, whose totalDailyComments has reached the limit and whose
\* last post is at least COMMENT_INTERVAL old
C8_NewAddressAtLimit ==
    /\ IsPostCheck
    /\ ipLimits[last.ip].count = 0 /\ ipLimits[last.ip].lastComment = 0
    /\ Len(userIPMappings[last.user].ips) > 1
    /\ userIPMappings[last.user].totalDailyComments >= DAILY_LIMIT
    /\ hist.postUser[last.user] = 0

\* C8 as claimed: such a check is denied and cites the cross-address limit.
C8_Claimed ==
    C8_NewAddressAtLimit => ~last.res.allowed /\ last.res.reason = "cross_ip"

\* C8: such a check is denied; it cites the username's daily limit when the
\* username's own count has reached the limit, and the cross-address limit
\* only when the username's own check passes.
C8_DeniedByUserFirst ==
    C8_NewAddressAtLimit =>
        /\ ~last.res.allowed
        /\ last.res.reason = IF userLimits[last.user].count >= DAILY_LIMIT
                             THEN "user_daily" ELSE "cross_ip"

\* limit 1, one post recorded: the check from the new address cites the
\* username's daily limit
C8_Witness ==
    /\ C8_NewAddressAtLimit
    /\ DAILY_LIMIT = 1
    /\ userLimits[last.user].count = 1
    /\ userIPMappings[last.user].totalDailyComments = 1
    /\ last.res.reason = "user_daily"

\* what checkRetrievalRateLimit would do and return in the current state
RetrievalCheck(ip, user) ==
    checkRetrievalRateLimit(ipLimits, userLimits, userIPMappings, ip, user, now)

IsRetrievalCheck == last.op = "checkRetrievalRateLimit"

\* C5 as claimed: while a retrieval recorded for an address or a username is
\* less than RETRIEVAL_INTERVAL old, every retrieval check on the key is
\* denied; a check is denied for a key's spacing only while such a retrieval
\* is that recent; with no recent retrieval the check is allowed, whatever
\* the counts are.
C5_RetrievalSpacing ==
    /\ \A ip \in IPs, user \in Users \cup {NoUser} :
          hist.retrievalIP[ip] > 0 => ~RetrievalCheck(ip, user).res.allowed
    /\ \A ip \in IPs, user \in Users :
          hist.retrievalUser[user] > 0 => ~RetrievalCheck(ip, user).res.allowed
    /\ IsRetrievalCheck =>
          /\ last.res.reason = "ip_retrieval_wait" => hist.retrievalIP[last.ip] > 0
          /\ last.res.reason = "user_retrieval_wait" => hist.retrievalUser[last.user] > 0
    /\ \A ip \in IPs, user \in Users \cup {NoUser} :
          ((\A a \in IPs : hist.retrievalIP[a] = 0) /\ (\A u \in Users : hist.retrievalUser[u] = 0))
              => RetrievalCheck(ip, user).res.allowed

\* C6 as claimed: a retrieval check for a username is denied whenever an
\* address of its mapping (this check's address added) has a lastRetrieval
\* less than RETRIEVAL_INTERVAL old; in particular a username whose retrieval
\* was recorded less than RETRIEVAL_INTERVAL ago is denied from every address.
C6_CrossAddressRetrieval ==
    /\ \A ip \in IPs, user \in Users :
          LET m == updateUserIPMapping(userIPMappings, user, ip, now)[user]
          IN (\E i \in 1..Len(m.ips) :
                 /\ Has(ipLimits, m.ips[i])
                 /\ ipLimits[m.ips[i]].lastRetrieval > 0
                 /\ now - ipLimits[m.ips[i]].lastRetrieval < RETRIEVAL_INTERVAL)
             => ~RetrievalCheck(ip, user).res.allowed
    /\ IsRetrievalCheck =>
          \A a \in IPs :
              (a # last.ip /\ hist.retrievalIP[a] > 0 /\ hist.retrievalUser[last.user] > 0)
                  => ~last.res.allowed

\* C9: a username that has used one address only is never denied for a
\* cross-address limit, post or retrieval.
C9_SingleAddress ==
    /\ \A ip \in IPs, user \in Users :
          hist.used[user] \subseteq {ip} =>
              /\ PostCheck(ip, user).res.reason # "cross_ip"
              /\ RetrievalCheck(ip, user).res.reason # "cross_ip_retrieval"
    /\ (IsPostCheck \/ IsRetrievalCheck) =>
          (Cardinality(hist.used[last.user]) <= 1 =>
              last.res.reason \notin {"cross_ip", "cross_ip_retrieval"})

\* a username with one address, at its daily limit, is denied for that limit
C9_Witness ==
    /\ IsPostCheck /\ last.res.reason \in {"ip_daily", "user_daily"}
    /\ hist.used[last.user] = {last.ip}
    /\ userLimits[last.user].count = DAILY_LIMIT

\* what checkAuthRateLimit would return in the current state
AuthCheck(id) == checkAuthRateLimit(authLimits, id, now)

\* the identifier has MAX_LOGIN_ATTEMPTS or more consecutive failures, the
\* last of them less than LOCKOUT_PERIOD ago
LockedByStreak(id) ==
    hist.streak[id] >= MAX_LOGIN_ATTEMPTS /\ now < hist.failAt[id] + LOCKOUT_PERIOD

\* C10: after MAX_LOGIN_ATTEMPTS consecutive failures, each within
\* LOCKOUT_PERIOD of the one before, checkAuthRateLimit denies the identifier
\* (until LOCKOUT_PERIOD after the last failure); a recorded success removes
\* the entry, and the next check is allowed.
C10_Lockout ==
    /\ \A id \in AuthIds : LockedByStreak(id) => ~AuthCheck(id).allowed
    /\ last.op = "checkAuthRateLimit" =>
          ((LockedByStreak(last.ip) \/ LockedByStreak(last.user)) => ~last.res.allowed)
    /\ last.op = "resetLoginAttempts" =>
          \A id \in {last.ip, last.user} : ~Has(authLimits, id) /\ AuthCheck(id).allowed

\* the login is denied for the identifier alone, after exactly
\* MAX_LOGIN_ATTEMPTS failures
C10_Witness ==
    /\ last.op = "checkAuthRateLimit" /\ ~last.res.allowed
    /\ hist.streak[last.user] = MAX_LOGIN_ATTEMPTS
    /\ authLimits[last.user].count = MAX_LOGIN_ATTEMPTS
    /\ ~LockedByStreak(last.ip)

\* the identifier has an entry whose lockout is not over
Locked(id) == Has(authLimits, id) /\ now < authLimits[id].lockoutUntil

\* checkAuthRateLimit denies exactly the locked identifiers, and a login is
\* denied exactly when its address or its identifier is locked
C11_DeniedIffLocked ==
    /\ \A id \in AuthIds : ~AuthCheck(id).allowed <=> Locked(id)
    /\ last.op = "checkAuthRateLimit" =>
          (~last.res.allowed <=> (Locked(last.ip) \/ Locked(last.user)))

\* a step that is a check of the authentication limit
C11_CheckStep == last'.op = "checkAuthRateLimit" => authLimits' = authLimits

\* C11: in every reachable state checkAuthRateLimit denies an identifier if
\* and only if it has an entry with now < lockoutUntil (it allows with no
\* entry and with now >= lockoutUntil), and a check changes no entry.
C11_CheckAuth == [][C11_CheckStep]_vars /\ []C11_DeniedIffLocked

\* a login is allowed for an identifier whose lockout is over and whose
\* entry is still there
C11_Witness ==
    /\ last.op = "checkAuthRateLimit" /\ last.res.allowed
    /\ Has(authLimits, last.user)
    /\ authLimits[last.user].lockoutUntil > 0
    /\ now >= authLimits[last.user].lockoutUntil

\* the entries after n more failures of the identifier at time t
RECURSIVE FailTimes(_, _, _, _)
FailTimes(limits, identifier, n, t) ==
    IF n = 0 THEN limits
    ELSE FailTimes(recordFailedLogin(limits, identifier, t), identifier, n - 1, t)

\* C12: an identifier is locked only with MAX_LOGIN_ATTEMPTS or more failures
\* recorded since its last recorded success; right after a recorded success,
\* whatever the entry was, fewer than MAX_LOGIN_ATTEMPTS further failures
\* leave the identifier allowed and the MAX_LOGIN_ATTEMPTS-th locks it.
C12_SuccessResets ==
    /\ \A id \in AuthIds : Locked(id) => hist.streak[id] >= MAX_LOGIN_ATTEMPTS
    /\ last.op = "resetLoginAttempts" =>
          \A id \in {last.ip, last.user} :
              /\ \A n \in 0..(MAX_LOGIN_ATTEMPTS - 1) :
                    checkAuthRateLimit(FailTimes(authLimits, id, n, now), id, now).allowed
              /\ ~checkAuthRateLimit(FailTimes(authLimits, id, MAX_LOGIN_ATTEMPTS, now),
                                     id, now).allowed

\* a success was recorded for an identifier that was locked
C12_Witness ==
    /\ last.op = "resetLoginAttempts" /\ ~last.res.allowed
    /\ ~Has(authLimits, last.user)

\* C13: a login checks its address and its lower-cased identifier and is
\* denied when either is locked; a refused login records a failure for both
\* keys, an accepted login removes the entries of both keys; the keys of
\* authLimits are addresses and lower-cased identifiers.
C13_BothKeys ==
    /\ DOMAIN authLimits \subseteq AuthIds
    /\ last.op = "checkAuthRateLimit" =>
          /\ last.user \in LoginNames
          /\ (Locked(last.ip) \/ Locked(last.user)) => ~last.res.allowed
          /\ last.res.allowed => InFlight(Req("login", last.ip, last.user)) > 0
    /\ last.op = "recordFailedLogin" =>
          \A id \in {last.ip, last.user} :
              /\ Has(authLimits, id)
              /\ authLimits[id].lastAttempt = now /\ authLimits[id].count >= 1
    /\ last.op = "resetLoginAttempts" =>
          ~Has(authLimits, last.ip) /\ ~Has(authLimits, last.user)

\* a login is denied for its address alone: the identifier has no entry
C13_Witness ==
    /\ last.op = "checkAuthRateLimit" /\ ~last.res.allowed
    /\ Locked(last.ip)
    /\ ~Has(authLimits, last.user)

\* the keys of the store m, the history touch saying when each was last
\* operated on (0: not within the last DAY_IN_MS), are as a sweep of the
\* claimed kind leaves them: no entry untouched for DAY_IN_MS or more, every
\* entry touched since
Swept(m, touch) ==
    /\ \A k \in DOMAIN m : touch[k] > 0
    /\ \A k \in DOMAIN touch : touch[k] > 0 => Has(m, k)

\* C14 as claimed: right after a sweep, an entry of ipLimits, userLimits or
\* userIPMappings on which no check or record operated for DAY_IN_MS or more
\* is absent, and one on which a check or record (post or retrieval) operated
\* less than DAY_IN_MS ago is present.
C14_Sweep ==
    last.op = "cleanup" =>
        /\ Swept(ipLimits, hist.touchIP)
        /\ Swept(userLimits, hist.touchUser)
        /\ Swept(userIPMappings, hist.touchMap)

\* a step that records the post of the request r: a post recorded for the
\* address or the username of r less than COMMENT_INTERVAL ago was recorded
\* after the check of r
C15_RecordStep ==
    \A r \in DOMAIN pending :
        (r.kind = "post" /\ last'.op = "recordComment" /\ pending' = Finished(r)) =>
            /\ hist.postIP[r.ip] > 0 => r.at <= hist.postIP[r.ip]
            /\ hist.postUser[r.user] > 0 => r.at <= hist.postUser[r.user]

\* a count passes DAILY_LIMIT by less than the number of requests in flight
\* at once
C15_Bounded ==
    /\ \A k \in DOMAIN ipLimits : ipLimits[k].count <= DAILY_LIMIT + MaxPending - 1
    /\ \A k \in DOMAIN userLimits : userLimits[k].count <= DAILY_LIMIT + MaxPending - 1

\* C15: check and record are separate steps, so two requests of one key can
\* both pass checkRateLimit before either records: two posts less than
\* COMMENT_INTERVAL apart are recorded for a key, and its count passes
\* DAILY_LIMIT, only by requests that were checked before the other's record
\* (and by no more than the requests in flight at once).
C15_Concurrency == [][C15_RecordStep]_vars /\ []C15_Bounded

\* two requests passed the check at the same time and both recorded: the
\* count of the address and of the username passed DAILY_LIMIT
C15_Witness ==
    /\ last.op = "recordComment" /\ ~last.threw
    /\ ipLimits[last.ip].count > DAILY_LIMIT
    /\ userLimits[last.user].count > DAILY_LIMIT
    /\ ipLimits[last.ip].lastComment = now

\* C16 as claimed: no check or record raises an exception, whatever the
\* interleaving of requests and sweeps (a record runs only for a request
\* whose check allowed it).
C16_NoException == ~last.threw

\* the entries of m1 have the count, lastComment and lastRetrieval they have
\* in m0 (a count may have had its daily reset)
NothingRecorded(m0, m1) ==
    /\ Unconsumed(m0, m1)
    /\ \A k \in DOMAIN m1 :
          m1[k].lastRetrieval = IF Has(m0, k) THEN m0[k].lastRetrieval ELSE 0

\* a step in which checkRateLimit or checkRetrievalRateLimit denies
C17_DeniedStep ==
    (last'.op \in {"checkRateLimit", "checkRetrievalRateLimit"} /\ ~last'.res.allowed) =>
        /\ last'.answer = [status |-> 429, success |-> FALSE, type |-> "rate_limit"]
        /\ pending' = pending
        /\ NothingRecorded(ipLimits, ipLimits')
        /\ NothingRecorded(userLimits, userLimits')
        /\ \A u \in DOMAIN userIPMappings' :
              Has(userIPMappings, u) =>
                  \/ userIPMappings'[u].totalDailyComments = userIPMappings[u].totalDailyComments
                  \/ userIPMappings'[u].totalDailyComments = 0

\* C17: when the check denies a post or a retrieval, the handler answers 429
\* with success false and type "rate_limit", starts no comment write or
\* fetch, and records nothing for the request.
C17_DeniedAnswers429 == [][C17_DeniedStep]_vars

\* a retrieval is denied with 429 while no request is in flight
C17_Witness ==
    /\ last.op = "checkRetrievalRateLimit" /\ ~last.res.allowed
    /\ last.answer.status = 429 /\ last.answer.type = "rate_limit"
    /\ PendingCount = 0

\* the step ends a request in flight of the given kind, for the address and
\* the username of the call
Ends(kind) ==
    \E r \in DOMAIN pending :
        /\ r.kind = kind /\ r.ip = last'.ip /\ r.user = last'.user
        /\ pending' = Finished(r)

\* a step of a handler after its underlying action returned
C18_AfterActionStep ==
    /\ last'.op = "recordComment" => Ends("post")
    /\ last'.op = "recordRetrieval" => Ends("get")
    /\ last'.op = "addCommentFailed" =>
          /\ Ends("post") /\ ~last'.answer.success
          /\ UNCHANGED <<ipLimits, userLimits, userIPMappings>>
    /\ last'.op = "getCommentsFailed" =>
          /\ Ends("get") /\ ~last'.answer.success
          /\ UNCHANGED <<ipLimits, userLimits, userIPMappings>>

\* C18: recordComment (recordRetrieval) is called only for a request in
\* flight (a request is in flight only after its check allowed it), when its
\* write (fetch) succeeded; a request whose write or fetch fails changes no count,
\* lastComment, lastRetrieval or totalDailyComments.
C18_RecordAfterSuccess == [][C18_AfterActionStep]_vars

\* a post failed after its check: nothing was counted and the next check of
\* the same address and username is allowed at once
C18_Witness ==
    /\ last.op = "addCommentFailed"
    /\ ipLimits[last.ip].count = 0 /\ userLimits[last.user].count = 0
    /\ userIPMappings[last.user].totalDailyComments = 0
    /\ PostCheck(last.ip, last.user).res.allowed

\* what a retrieval check answers from the entry of the address alone
FromAddressAlone(ip) ==
    _checkTimeInterval(IF Has(ipLimits, ip) THEN ipLimits[ip].lastRetrieval ELSE 0,
                       RETRIEVAL_INTERVAL, "ip_retrieval_wait", now)

\* without a username, checkRetrievalRateLimit answers from the entry of the
\* address alone, and neither it nor recordRetrieval changes userLimits or
\* userIPMappings
C19_AddressOnly ==
    \A ip \in IPs :
        LET c == RetrievalCheck(ip, NoUser)
        IN /\ c.res = FromAddressAlone(ip)
           /\ c.user = userLimits /\ c.maps = userIPMappings
           /\ recordRetrieval(ipLimits, userLimits, ip, NoUser, now).user = userLimits

\* a step of GET /getComments without a username
C19_AnonymousStep ==
    (/\ last'.op \in {"checkRetrievalRateLimit", "recordRetrieval"}
     /\ last'.user = NoUser) => UNCHANGED <<userLimits, userIPMappings>>

\* C19: when no username is supplied, the result of the retrieval check
\* depends on the entry of the address only, and neither the check nor the
\* record creates or changes an entry of userLimits or userIPMappings.
C19_Anonymous == [][C19_AnonymousStep]_vars /\ []C19_AddressOnly

\* a retrieval without a username is allowed from an address while the same
\* request under a username that has just retrieved elsewhere is denied
C19_Witness ==
    /\ last.op = "checkRetrievalRateLimit" /\ last.user = NoUser /\ last.res.allowed
    /\ \E u \in Users :
          /\ hist.retrievalUser[u] > 0
          /\ ~RetrievalCheck(last.ip, u).res.allowed

StatusFields == {"totalIPs", "totalUsers", "totalMappings", "totalAuth",
                 "ipStatus", "ipAuthStatus", "userStatus", "userMapping", "userAuthStatus"}

\* field is in the status exactly when its key was given and is present in m,
\* and then it is that key's entry
Scoped(status, field, given, m, k) ==
    /\ (field \in DOMAIN status) <=> (given /\ Has(m, k))
    /\ (field \in DOMAIN status) => status[field] = m[k]

\* what getStatus returns in the current state, for every pair of arguments
C20_Scoped ==
    \A ip \in IPs \cup {NoIP}, user \in LoginNames \cup {NoUser} :
        LET s == getStatus(ipLimits, userLimits, userIPMappings, authLimits, ip, user)
        IN /\ DOMAIN s \subseteq StatusFields
           /\ s["totalIPs"] = Cardinality(DOMAIN ipLimits)
           /\ s["totalUsers"] = Cardinality(DOMAIN userLimits)
           /\ s["totalMappings"] = Cardinality(DOMAIN userIPMappings)
           /\ s["totalAuth"] = Cardinality(DOMAIN authLimits)
           /\ Scoped(s, "ipStatus", ip # NoIP, ipLimits, ip)
           /\ Scoped(s, "ipAuthStatus", ip # NoIP, authLimits, ip)
           /\ Scoped(s, "userStatus", user # NoUser, userLimits, user)
           /\ Scoped(s, "userAuthStatus", user # NoUser, authLimits, user)
           /\ ("userMapping" \in DOMAIN s) <=> (user # NoUser /\ Has(userIPMappings, user))
           /\ ("userMapping" \in DOMAIN s) =>
                 /\ s["userMapping"].totalDailyComments = userIPMappings[user].totalDailyComments
                 /\ s["userMapping"].lastReset = userIPMappings[user].lastReset
                 /\ s["userMapping"].ips = userIPMappings[user].ips

\* a call of getStatus changes none of the four stores and returns the status
\* of the state it was called in
C20_StatusStep ==
    last'.op = "getStatus" =>
        /\ UNCHANGED <<ipLimits, userLimits, userIPMappings, authLimits>>
        /\ last'.status = getStatus(ipLimits, userLimits, userIPMappings, authLimits,
                                    last'.ip, last'.user)

\* C20: getStatus(ip?, username?) changes none of the four stores, always
\* returns the four totals, and returns an entry only for the ip and the
\* username passed as arguments, never an entry of a key that was not asked for.
C20_StatusReadOnlyScoped == [][C20_StatusStep]_vars /\ []C20_Scoped

\* getStatus was called with an ip only while entries of another address and of
\* identifiers exist: the status holds that ip's entries and no other detail
C20_Witness ==
    /\ last.op = "getStatus" /\ last.ip = "A" /\ last.user = NoUser
    /\ Has(ipLimits, "A") /\ Has(ipLimits, "B") /\ Has(userLimits, "alice")
    /\ Has(authLimits, "A") /\ Has(authLimits, "bob")
    /\ DOMAIN last.status = {"totalIPs", "totalUsers", "totalMappings", "totalAuth",
                             "ipStatus", "ipAuthStatus"}
    /\ last.status["totalAuth"] >= 2

\* a configured daily limit of 0 makes every post check denied
ZeroCapHonoured ==
    env.DAILY_LIMIT = "0" =>
        /\ DAILY_LIMIT = 0
        /\ \A ip \in IPs, user \in Users : ~PostCheck(ip, user).res.allowed

\* a configured COMMENT_INTERVAL of 0 lets no post check be denied for spacing
ZeroPostIntervalHonoured ==
    env.COMMENT_INTERVAL = "0" =>
        /\ constructor(env).COMMENT_INTERVAL = 0
        /\ \A ip \in IPs, user \in Users :
              PostCheck(ip, user).res.reason \notin {"ip_wait", "user_wait"}

\* a configured RETRIEVAL_INTERVAL of 0 lets every retrieval check be allowed
ZeroRetrievalIntervalHonoured ==
    env.RETRIEVAL_INTERVAL = "0" =>
        /\ constructor(env).RETRIEVAL_INTERVAL = 0
        /\ \A ip \in IPs, user \in Users : RetrievalCheck(ip, user).res.allowed

\* C21: a configured daily limit of 0 makes every post check denied, and a
\* configured post or retrieval interval of 0 allows an immediate repeat;
\* neither value is replaced by a default.
C21_ZeroHonoured ==
    ZeroCapHonoured /\ ZeroPostIntervalHonoured /\ ZeroRetrievalIntervalHonoured

\* the environment gives a negative or non-numeric daily limit or interval
Misconfigured(e) ==
    \E value \in {e.DAILY_LIMIT, e.COMMENT_INTERVAL, e.RETRIEVAL_INTERVAL} :
        value # Unset /\ (Number(value).nan \/ Number(value).n < 0)

\* C22: no RateLimiter runs (every state of a behaviour is a state of a
\* constructed RateLimiter) in an environment with a negative or non-numeric
\* daily limit, post interval or retrieval interval, and none runs with a
\* negative limit.
C22_MisconfigurationRejected == ~Misconfigured(env) /\ DAILY_LIMIT >= 0

\* the entry of identifier after a failure recorded now, as the rule states it
\* from the entry before
FailureRule(identifier) ==
    LET had == Has(authLimits, identifier)
        count == IF ~had \/ now - authLimits[identifier].lastAttempt > LOCKOUT_PERIOD
                 THEN 1 ELSE authLimits[identifier].count + 1
    IN [count |-> count,
        lastAttempt |-> now,
        lockoutUntil |-> IF count >= MAX_LOGIN_ATTEMPTS THEN now + LOCKOUT_PERIOD
                         ELSE IF had THEN authLimits[identifier].lockoutUntil ELSE 0]

\* a step that records a failed login for the address and the identifier
C23_RecordStep ==
    last'.op = "recordFailedLogin" =>
        /\ DOMAIN authLimits' = DOMAIN authLimits \cup {last'.ip, last'.user}
        /\ \A id \in DOMAIN authLimits' :
              authLimits'[id] = IF id \in {last'.ip, last'.user} THEN FailureRule(id)
                                ELSE authLimits[id]

\* C23: recordFailedLogin sets the count to 1 when there is no entry or the
\* last attempt is more than LOCKOUT_PERIOD old and raises it by 1 otherwise,
\* sets lastAttempt to now, sets lockoutUntil to now + LOCKOUT_PERIOD exactly
\* when the resulting count has reached MAX_LOGIN_ATTEMPTS and leaves it
\* unchanged otherwise, and leaves the entries of other identifiers unchanged.
C23_RecordFailure == [][C23_RecordStep]_vars

\* a failure was recorded for an identifier whose lockout is over and whose
\* last attempt was too old: its count is 1 again and lockoutUntil is the old one
C23_Witness ==
    /\ last.op = "recordFailedLogin"
    /\ Has(authLimits, last.user)
    /\ authLimits[last.user].count = 1
    /\ authLimits[last.user].lockoutUntil > 0
    /\ authLimits[last.user].lockoutUntil < now
    /\ \E id \in DOMAIN authLimits : id \notin {last.ip, last.user}

\* a step of cleanup: an entry of authLimits goes exactly when now is past its
\* lockoutUntil and its last attempt is more than LOCKOUT_PERIOD old; an entry
\* that is locked or whose last attempt is at most LOCKOUT_PERIOD old stays,
\* and stays as it is
C24_SweepStep ==
    last'.op = "cleanup" =>
        /\ DOMAIN authLimits' \subseteq DOMAIN authLimits
        /\ \A id \in DOMAIN authLimits :
              LET e == authLimits[id]
              IN /\ (id \notin DOMAIN authLimits') <=>
                       (now > e.lockoutUntil /\ now - e.lastAttempt > LOCKOUT_PERIOD)
                 /\ (now < e.lockoutUntil \/ now - e.lastAttempt <= LOCKOUT_PERIOD) =>
                       (id \in DOMAIN authLimits' /\ authLimits'[id] = e)

\* C24: cleanup deletes an entry of authLimits exactly when now is past its
\* lockoutUntil and its last attempt is older than LOCKOUT_PERIOD; it never
\* deletes an entry that is locked or whose last attempt lies within
\* LOCKOUT_PERIOD.
C24_AuthSweep == [][C24_SweepStep]_vars

\* a cleanup deleted the entry of one identifier and kept a locked one
C24_Witness ==
    /\ last.op = "cleanup"
    /\ hist.swept # {}
    /\ \E id \in DOMAIN authLimits : now < authLimits[id].lockoutUntil

\* s is an initial part of t
Prefix(s, t) == Len(s) <= Len(t) /\ \A i \in 1..Len(s) : s[i] = t[i]

\* the step is a post check or a retrieval check of username
CheckOf(username) ==
    /\ last'.op \in {"checkRateLimit", "checkRetrievalRateLimit"}
    /\ last'.user = username

\* what a step does to the mapping of a username
C25_MappingStep ==
    \A u \in Users :
        /\ (Has(userIPMappings, u) /\ Has(userIPMappings', u)) =>
              LET m == userIPMappings[u]
                  n == userIPMappings'[u]
              IN /\ Prefix(m.ips, n.ips)
                 /\ n.lastReset # m.lastReset =>
                       /\ n.lastReset = now /\ n.totalDailyComments = 0
                       /\ CheckOf(u) /\ now - m.lastReset >= DAY_IN_MS
                 /\ n.totalDailyComments < m.totalDailyComments => n.lastReset # m.lastReset
                 /\ (last'.op = "checkRateLimit" /\ last'.user = u
                        /\ now - m.lastReset >= DAY_IN_MS) =>
                       (n.lastReset = now /\ n.totalDailyComments = 0)
        /\ (~Has(userIPMappings, u) /\ Has(userIPMappings', u)) =>
              /\ CheckOf(u)
              /\ userIPMappings'[u] =
                    [ips |-> <<last'.ip>>, totalDailyComments |-> 0, lastReset |-> now]
        /\ (Has(userIPMappings, u) /\ ~Has(userIPMappings', u)) =>
              /\ last'.op = "cleanup"
              /\ now - userIPMappings[u].lastReset > DAY_IN_MS

\* C25: while a mapping exists its set of addresses only grows;
\* totalDailyComments is set to 0 at exactly the steps where lastReset is set
\* to now, which are the checks of the username with now - lastReset >=
\* DAY_IN_MS; no other step lowers totalDailyComments or changes lastReset.
C25_Mapping == [][C25_MappingStep]_vars

\* a check has just reset the mapping of a username that keeps two addresses
C25_Witness ==
    /\ last.op \in {"checkRateLimit", "checkRetrievalRateLimit"}
    /\ Has(userIPMappings, last.user)
    /\ userIPMappings[last.user].lastReset = now
    /\ now >= StartTime + DAY_IN_MS
    /\ Len(userIPMappings[last.user].ips) = 2
    /\ userIPMappings[last.user].totalDailyComments = 0
    /\ Has(userLimits, last.user)
    /\ userLimits[last.user].lastComment > 0

\* the mapping of username exists and its addresses include ip
Linked(maps, username, ip) == Has(maps, username) /\ SeqHas(maps[username].ips, ip)

\* C26: every post check of an address and a username, allowed or denied and
\* whichever rule denies it, leaves a mapping of the username whose set of
\* addresses contains the address.
C26_CheckLinks ==
    /\ \A ip \in IPs, user \in Users : Linked(PostCheck(ip, user).maps, user, ip)
    /\ IsPostCheck => Linked(userIPMappings, last.user, last.ip)

\* a post check was denied at an address the username has no post from, and
\* the address is the second one of the username's mapping
C26_Witness ==
    /\ IsPostCheck /\ ~last.res.allowed
    /\ Linked(userIPMappings, last.user, last.ip)
    /\ Len(userIPMappings[last.user].ips) = 2
    /\ userIPMappings[last.user].ips[2] = last.ip
    /\ ipLimits[last.ip].count = 0 /\ ipLimits[last.ip].lastComment = 0

\* the entry e after one more post recorded at time t
Counted(e, t) == [e EXCEPT !.count = @ + 1, !.lastComment = t]

\* a step of recordComment(ip, username)
C27_RecordStep ==
    last'.op = "recordComment" =>
        /\ Has(ipLimits, last'.ip)
        /\ ipLimits' = Put(ipLimits, last'.ip, Counted(ipLimits[last'.ip], now))
        /\ Has(userLimits, last'.user)
        /\ userLimits' = Put(userLimits, last'.user, Counted(userLimits[last'.user], now))
        /\ Has(userIPMappings, last'.user)
        /\ userIPMappings' =
              Put(userIPMappings, last'.user,
                  [userIPMappings[last'.user] EXCEPT !.totalDailyComments = @ + 1])
        /\ authLimits' = authLimits

\* C27: recordComment raises the count of the address, the count of the
\* username and totalDailyComments of the mapping by exactly 1 each, sets
\* lastComment of both entries to now, and leaves everything else unchanged:
\* lastReset, lastRetrieval, the sets of addresses, the entries of other keys
\* and authLimits.
C27_RecordFrame == [][C27_RecordStep]_vars

\* the address had a check or a record of a request operate on its entry at or
\* after time t, less than DAY_IN_MS ago
UsedSince(ip, t) == hist.touchIP[ip] > 0 /\ hist.touchIP[ip] >= t

\* C28: the set of addresses of a mapping whose daily window is running
\* holds only addresses used since the mapping's lastReset, so that an address
\* used only in an earlier window is no longer looked at by the cross-address
\* check.
C28_AddressesOfToday ==
    \A u \in DOMAIN userIPMappings :
        now - userIPMappings[u].lastReset < DAY_IN_MS =>
            \A i \in 1..Len(userIPMappings[u].ips) :
                UsedSince(userIPMappings[u].ips[i], userIPMappings[u].lastReset)

\* the numbers a denial quotes are in the range of its unit
QuoteInRange(res) ==
    ~res.allowed =>
        \A q \in Quotes(res) :
            /\ q >= 1
            /\ res.reason \in DailyReasons => q <= 24
            /\ res.reason = "auth_locked" => q <= 15

\* C29: every denial quotes the remaining time rounded up to its unit: hours
\* in 1..24 for a daily or cross-address denial, seconds of at least 1 for a
\* spacing denial, minutes in 1..15 for a login denial; none quotes zero or a
\* negative number.
C29_Quotes ==
    /\ QuoteInRange(last.res)
    /\ \A ip \in IPs, user \in Users :
          QuoteInRange(PostCheck(ip, user).res) /\ QuoteInRange(RetrievalCheck(ip, user).res)
    /\ \A id \in AuthIds : QuoteInRange(checkAuthRateLimit(authLimits, id, now))

\* a post was denied for a daily limit in the last part of the window: the
\* text quotes a number of hours rounded up from a millisecond on
C29_Witness ==
    /\ ~last.res.allowed
    /\ last.res.reason \in DailyReasons
    /\ last.res.remaining = 1
    /\ Quotes(last.res) = {1, 2, 8}

\* C30: when every allowed post check is followed by its record before the
\* next check, the count of every address and of every username stays at or
\* under DAILY_LIMIT, however many addresses the username uses.
C30_CountsWithinCap ==
    /\ \A k \in DOMAIN ipLimits : ipLimits[k].count <= DAILY_LIMIT
    /\ \A k \in DOMAIN userLimits : userLimits[k].count <= DAILY_LIMIT

\* a username whose count is at DAILY_LIMIT and whose mapping has two
\* addresses has just been denied for a daily limit, with nothing in flight
C30_Witness ==
    /\ IsPostCheck /\ ~last.res.allowed /\ last.res.reason \in DailyReasons
    /\ pending = EmptyMap
    /\ Has(userLimits, last.user) /\ userLimits[last.user].count = DAILY_LIMIT
    /\ Len(userIPMappings[last.user].ips) = 2
    /\ \E k \in DOMAIN ipLimits : ipLimits[k].count = DAILY_LIMIT

\* C31: an identifier whose lockout has run out is not locked again before
\* MAX_LOGIN_ATTEMPTS further failures have been recorded for it; a single
\* failure at the instant now = lockoutUntil does not lock it again.
C31_NoEarlyRelock ==
    \A id \in AuthIds : Locked(id) => hist.since[id] >= MAX_LOGIN_ATTEMPTS

\* a step of POST /login that answered 429
DeniedLogin == last'.op = "checkAuthRateLimit" /\ ~last'.res.allowed

\* a denied login starts no credential verification and records nothing, and
\* the entry of a locked identifier keeps its count and its lockoutUntil
C32_Step ==
    /\ DeniedLogin => /\ pending' = pending
                      /\ authLimits' = authLimits
                      /\ hist'.streak = hist.streak
    /\ \A id \in AuthIds :
           Locked(id) => /\ Has(authLimits', id)
                         /\ authLimits'[id].count = authLimits[id].count
                         /\ authLimits'[id].lockoutUntil = authLimits[id].lockoutUntil

\* a locked identifier is locked until LOCKOUT_PERIOD after the last failure
\* recorded for it
C32_Duration ==
    \A id \in AuthIds :
        Locked(id) => authLimits[id].lockoutUntil = hist.failAt[id] + LOCKOUT_PERIOD

\* C32: a login denied by the address check or the identifier check starts no
\* credential verification and records neither a failure nor a success; with
\* logins taken one at a time, the count and the lockoutUntil of an identifier
\* do not change while it is locked, and a lockout lasts LOCKOUT_PERIOD from
\* the failure that caused it.
C32_DeniedLoginInert == [][C32_Step]_vars /\ []C32_Duration

\* a login was denied for an identifier that has been locked for some time,
\* while the address it came from is not locked
C32_Witness ==
    /\ last.op = "checkAuthRateLimit" /\ ~last.res.allowed
    /\ Locked(last.user) /\ ~Locked(last.ip)
    /\ now > hist.failAt[last.user]
    /\ pending = EmptyMap

\* a step of POST /login that recorded a failure
RecordedFailure == last'.op = "recordFailedLogin" /\ authLimits' # authLimits

\* the failures recorded for id since the later of the last end of a lockout
\* of id and the start of its present streak, each of them after a credential
\* verification of its own
VerifiedSinceExpiry(id) ==
    IF hist.streak[id] < hist.since[id] THEN hist.streak[id] ELSE hist.since[id]

\* C33: also when logins interleave, no failure is recorded for a login whose
\* address or identifier is locked at that moment, so that no more than
\* MAX_LOGIN_ATTEMPTS credentials are verified for an identifier between the
\* ends of two lockouts.
C33_NoGuessWhileLocked ==
    [](\A id \in AuthIds : VerifiedSinceExpiry(id) <= MAX_LOGIN_ATTEMPTS)
        /\ [][RecordedFailure => ~Locked(last'.ip) /\ ~Locked(last'.user)]_vars

\* the four stores as a sweep at the present time would leave them
AfterSweep == cleanup(ipLimits, userLimits, userIPMappings, authLimits, now)

\* the verdicts of a post check, a retrieval check and a login check made now
\* on the stores ipl, usl, maps and auth
Verdicts(ipl, usl, maps, auth) ==
    [post |-> [ip \in IPs, user \in Users |->
                  checkRateLimit(ipl, usl, maps, ip, user, now).res.allowed],
     retrieval |-> [ip \in IPs, user \in Users |->
                  checkRetrievalRateLimit(ipl, usl, maps, ip, user, now).res.allowed],
     auth |-> [id \in AuthIds |-> checkAuthRateLimit(auth, id, now).allowed]]

\* C34: a sweep is not observable: a check made after it (post, retrieval or
\* login) is allowed or denied as it would have been had the sweep not run.
C34_SweepTransparent ==
    Verdicts(AfterSweep.ip, AfterSweep.user, AfterSweep.maps, AfterSweep.auth)
        = Verdicts(ipLimits, userLimits, userIPMappings, authLimits)

\* a step of GET /getComments in the limiter: its check or its record
RetrievalStep == last'.op \in {"checkRetrievalRateLimit", "recordRetrieval"}

\* every entry of limits is in after, with nothing but lastRetrieval changed
OnlyRetrievalTime(limits, after) ==
    \A k \in DOMAIN limits :
        /\ Has(after, k)
        /\ after[k] = [limits[k] EXCEPT !.lastRetrieval = after[k].lastRetrieval]

\* C35: the retrieval check and the retrieval record leave the count, the
\* lastReset and the lastComment of every existing ipLimits and userLimits
\* entry as they were, and leave authLimits as it was: of an existing entry
\* they change lastRetrieval only.
C35_RetrievalFrame ==
    [][RetrievalStep => /\ OnlyRetrievalTime(ipLimits, ipLimits')
                        /\ OnlyRetrievalTime(userLimits, userLimits')
                        /\ authLimits' = authLimits]_vars

\* a retrieval was recorded for an address and a username with posts counted
\* today, in a window older than the retrieval, while login failures are kept
C35_Witness ==
    /\ last.op = "recordRetrieval"
    /\ Has(ipLimits, last.ip) /\ ipLimits[last.ip].count > 0
    /\ ipLimits[last.ip].lastReset < now /\ ipLimits[last.ip].lastRetrieval = now
    /\ Has(userLimits, last.user) /\ userLimits[last.user].count > 0
    /\ authLimits # EmptyMap

\* what a post check made now would answer, for every address and username
PostVerdicts ==
    Verdicts(ipLimits, userLimits, userIPMappings, authLimits).post

\* C36: retrieval does not interfere with posting: the check or the record of
\* a retrieval, from whatever address and under whatever username, leaves the
\* verdict of every post check as it was, so that no retrieval makes a later
\* post be denied.
C36_RetrievalInert == [][RetrievalStep => PostVerdicts' = PostVerdicts]_vars

\* a step of POST /login made for the client c
LoginStepOf(c) ==
    /\ last'.op \in {"checkAuthRateLimit", "recordFailedLogin", "resetLoginAttempts"}
    /\ last'.ip = c.ip /\ last'.user = c.user

\* what a post check, a retrieval check and a login of the client c would be
\* answered now
VerdictsOf(c) ==
    LET v == Verdicts(ipLimits, userLimits, userIPMappings, authLimits)
    IN [post |-> IF c.ip \in IPs /\ c.user \in Users THEN v.post[c.ip, c.user] ELSE TRUE,
        retrieval |-> IF c.ip \in IPs /\ c.user \in Users
                      THEN v.retrieval[c.ip, c.user] ELSE TRUE,
        auth |-> v.auth[c.ip] /\ v.auth[c.user]]

\* C37: two identities that never use a common source address are isolated:
\* no check or record made for the one changes the verdict of a post check, a
\* retrieval check or a login check of the other.
C37_Isolation ==
    [][/\ LoginStepOf(Stranger) => VerdictsOf(Resident)' = VerdictsOf(Resident)
       /\ LoginStepOf(Resident) => VerdictsOf(Stranger)' = VerdictsOf(Stranger)]_vars

\* C40: the counters of an address and of an identifier do not collide: each
\* failed login raises the count of its address by one and the count of its
\* identifier by one, also when the two strings are equal, so that a key is
\* locked only after MAX_LOGIN_ATTEMPTS failed logins that involve it.
C40_NoCollision ==
    [](\A id \in AuthIds : Locked(id) => hist.streak[id] >= MAX_LOGIN_ATTEMPTS)
        /\ [][RecordedFailure =>
                \A id \in {last'.ip, last'.user} :
                    authLimits'[id].count = FailureRule(id).count]_vars

\* a step of a request that names the address ip: its check or its record
RequestFrom(ip) == last'.ip = ip /\ last'.op # "getStatus"

\* a step of a request that names the username or login identifier id
RequestOf(id) == last'.user = id /\ last'.op # "getStatus"

\* C38: memory is reclaimed: while the clock advances and the sweep keeps
\* running, the ipLimits, userLimits, userIPMappings and authLimits entries
\* of a key that no further check or record names are removed in the end.
C38_Reclaimed ==
    /\ \A ip \in IPs :
           []<><<RequestFrom(ip)>>_vars \/ <>[](~Has(ipLimits, ip))
    /\ \A user \in Users :
           []<><<RequestOf(user)>>_vars
               \/ <>[](~Has(userLimits, user) /\ ~Has(userIPMappings, user))
    /\ \A id \in AuthIds :
           []<><<RequestFrom(id) \/ RequestOf(id)>>_vars \/ <>[](~Has(authLimits, id))

\* a step that records a post
RecordedPost == last'.op = "recordComment"

\* what a login check of id made now would answer
AuthVerdict(id) == checkAuthRateLimit(authLimits, id, now).allowed

\* C39: no denial is for ever when DAILY_LIMIT > 0: unless posts go on being
\* recorded, the post check of every address and username is allowed once
\* enough time has passed; and unless failures go on being recorded, a locked
\* identifier is allowed again, from its lockoutUntil on.
C39_NoPermanentDenial ==
    /\ []<><<RecordedPost>>_vars
           \/ <>[](DAILY_LIMIT > 0 => \A ip \in IPs, user \in Users : PostVerdicts[ip, user])
    /\ []<><<RecordedFailure>>_vars
           \/ <>[](\A id \in AuthIds : AuthVerdict(id))
    /\ [](\A id \in AuthIds :
             Has(authLimits, id) /\ now >= authLimits[id].lockoutUntil => AuthVerdict(id))

\* a username that used two addresses and an address with a post of an
\* earlier day are allowed a post again: the check has just started a new day
\* for the address, the username and the mapping
C39_Witness ==
    /\ last.op = "checkRateLimit" /\ last.res.allowed
    /\ Len(userIPMappings[last.user].ips) > 1
    /\ ipLimits[last.ip].lastComment > 0
    /\ ipLimits[last.ip].count = 0 /\ ipLimits[last.ip].lastReset = now
    /\ userLimits[last.user].count = 0 /\ userLimits[last.user].lastReset = now
    /\ userIPMappings[last.user].lastReset = now

====
